---- MODULE Spec2Model ----
(***************************************************************************)
(* Task hierarchy and dependency/cascade engine of mcp-meta-mind.          *)
(*                                                                         *)
(* Two servers are modelled side by side:                                  *)
(*   - the file-based TaskManagerServer (src/unnamed/part_000, line 1654), *)
(*     whose state is requestsMap, completedTasksData and the counters;   *)
(*   - the SQLite-backed TaskManagerServer (src/src/taskManagerServer.ts)  *)
(*     over TaskRepository (src/src/migration.ts, line 425), whose state   *)
(*     is the tables requests, tasks, archived_tasks and metadata.         *)
(*                                                                         *)
(* Ids: the integer k stands for "task-k" / "req-k"; 0 stands for an       *)
(* absent parentId.  dependsOn and subtaskIds are kept as sets: the code   *)
(* only tests membership, filters and appends ids that are not yet listed. *)
(* reqEntry.tasks is always in increasing id order (new ids are pushed,    *)
(* filter keeps the order), so it is a function from the live ids.         *)
(***************************************************************************)
EXTENDS Integers, FiniteSets, Sequences, TLC

VARIABLES
  requestsMap,         \* file server: requestId -> [completed, tasks]
  requestCounter,      \* file server: lastRequestId
  taskCounter,         \* file server: lastTaskId
  completedTasksData,  \* file server: sequence of archived bundles
  requests,            \* SQLite: table requests, requestId -> [completed]
  tasks,               \* SQLite: table tasks, taskId -> row
  archived_tasks,      \* SQLite: table archived_tasks, taskId -> row
  metadata,            \* SQLite: table metadata (lastRequestId, lastTaskId)
  writers,             \* SQLite: each writer's place in getNextTaskId/getNextRequestId
  clock,               \* the value new Date() returns
  result               \* the last call and what it returned or threw

fileVars == <<requestsMap, requestCounter, taskCounter, completedTasksData>>
sqlVars == <<requests, tasks, archived_tasks, metadata, writers>>
vars == <<requestsMap, requestCounter, taskCounter, completedTasksData,
          requests, tasks, archived_tasks, metadata, writers, clock, result>>

(***************************************************************************)
(* Bounds of the model.                                                    *)
(***************************************************************************)
MaxTaskId == 4       \* ids the task counter hands out
MaxLiveTasks == 3    \* live tasks of a request
MaxRequestId == 1
MaxClock == 1
MaxRequests == 2      \* requests planned where a property is about several

MaxWriters == 2       \* processes that open the same database file

TaskIds == 1..MaxTaskId
Writers == 1..MaxWriters
RequestIds == 1..MaxRequestId

(***************************************************************************)
(* Enumerations.                                                           *)
(***************************************************************************)
TaskStatus == {"pending", "active", "done", "failed", "requires_clarification", "split"}
SettableTaskStatusEnum == {"pending", "active", "done", "failed", "requires_clarification"}
TaskPriority == {"high", "medium", "low"}

IsTerminal(s) == s \in {"done", "failed"}
IsTerminalOrSplit(s) == s \in {"done", "failed", "split"}

\* What a call leaves in result: the operation, the request and task it named,
\* the status it returned, the time of the call and the issues it listed.  Of a thrown error only
\* the class is kept (taskId 0): the message is not modelled.
Returned(op, r, t, st) ==
  [op |-> op, requestId |-> r, taskId |-> t, status |-> st, at |-> clock, issues |-> {}]

Errors == {"NotFound", "InvalidOperation", "RangeError", "SqliteError"}

(***************************************************************************)
(* ---------------------- file-based server ------------------------------ *)
(***************************************************************************)

\* The object literal every creating operation builds.
NewTask(priority, dependsOn, parentId, now) ==
  [status |-> "pending", priority |-> priority, title |-> <<"T">>,
   dependsOn |-> dependsOn, parentId |-> parentId,
   subtaskIds |-> {}, hasSubtaskIds |-> TRUE,
   suggestedRetryStrategy |-> "", updatedAt |-> now]

\* Extends the function T by the pair id |-> task.
Push(T, id, task) == [k \in DOMAIN T \cup {id} |-> IF k = id THEN task ELSE T[k]]

\* Restricts the function T to the ids in keep.
Filter(T, keep) == [k \in DOMAIN T \cap keep |-> T[k]]

\* Subtask ids of t that resolve through taskMap.
LiveSubs(T, t) == T[t].subtaskIds \cap DOMAIN T

\* The ids the breadth-first walk over subtaskIds visits, starting from a frontier.
RECURSIVE Walk(_, _, _)
Walk(T, frontier, visited) ==
  IF frontier = {} THEN visited
  ELSE LET seen == visited \cup frontier
           next == UNION {LiveSubs(T, x) : x \in frontier}
       IN Walk(T, next \ seen, seen)

\* Ids of rootTask and of its descendants.
_collectTaskWithDescendants(T, rootTask) == Walk(T, {rootTask}, {})

\* Nodes the recursion of _areAllDescendantsStatus can enter: it descends
\* only below nodes whose status is targetStatus.
RECURSIVE Entered(_, _, _, _)
Entered(T, frontier, visited, targetStatus) ==
  IF frontier = {} THEN visited
  ELSE LET seen == visited \cup frontier
           open == {x \in frontier : T[x].status = targetStatus}
           next == UNION {LiveSubs(T, x) : x \in open}
       IN Entered(T, next \ seen, seen, targetStatus)

\* The outcomes of the recursive _areAllDescendantsStatus: "true", "false", or
\* "overflow" when the recursion never ends (a cycle of subtaskIds among
\* tasks of the target status exhausts the call stack: RangeError).  Where
\* the order of subtaskIds decides between false and overflow, both are kept.
_areAllDescendantsStatus(T, task, targetStatus) ==
  LET nodes == Entered(T, {task}, {}, targetStatus)
      good == {x \in nodes : T[x].status = targetStatus}
      bad == \/ good # nodes
             \/ \E x \in good : T[x].subtaskIds \ DOMAIN T # {}
      cyclic == \E x \in good : x \in Walk(Filter(T, good), LiveSubs(Filter(T, good), x), {})
  IN IF T[task].status # targetStatus THEN {"false"}
     ELSE IF bad /\ cyclic THEN {"false", "overflow"}
     ELSE IF bad THEN {"false"}
     ELSE IF cyclic THEN {"overflow"}
     ELSE {"true"}

\* _removeTaskAndDescendantsFromRequest without the pruning of the
\* survivors' dependsOn.
_removeTaskAndDescendantsFromRequest_KeepsDependsOn(T, taskIdToRemove) ==
  LET tasksToDeleteIds == Walk(T, {taskIdToRemove}, {})
      p == T[taskIdToRemove].parentId
      T1 == IF p # 0 /\ p \in DOMAIN T /\ T[p].hasSubtaskIds
            THEN [T EXCEPT ![p].subtaskIds = @ \ {taskIdToRemove},
                           ![p].hasSubtaskIds = (T[p].subtaskIds \ {taskIdToRemove}) # {}]
            ELSE T
      T2 == Filter(T1, DOMAIN T1 \ tasksToDeleteIds)
  IN [k \in DOMAIN T2 |->
        [T2[k] EXCEPT !.parentId = IF @ # 0 /\ @ \in tasksToDeleteIds THEN 0 ELSE @]]

\* Removes a task and its descendants; prunes the parent's subtaskIds, the
\* survivors' dependsOn and the parentIds that pointed into the removed set.
_removeTaskAndDescendantsFromRequest(T, taskIdToRemove) ==
  LET tasksToDeleteIds == Walk(T, {taskIdToRemove}, {})
      p == T[taskIdToRemove].parentId
      T1 == IF p # 0 /\ p \in DOMAIN T /\ T[p].hasSubtaskIds
            THEN [T EXCEPT ![p].subtaskIds = @ \ {taskIdToRemove},
                           ![p].hasSubtaskIds = (T[p].subtaskIds \ {taskIdToRemove}) # {}]
            ELSE T
      T2 == Filter(T1, DOMAIN T1 \ tasksToDeleteIds)
  IN [k \in DOMAIN T2 |->
        [T2[k] EXCEPT !.dependsOn = @ \ tasksToDeleteIds,
                      !.parentId = IF @ # 0 /\ @ \in tasksToDeleteIds THEN 0 ELSE @]]

\* checkAndCompleteParent that closes the parent together with the
\* subtasks of it that are still open.
checkAndCompleteParent_ClosesSiblings(T, currentTask, now) ==
  LET p == T[currentTask].parentId IN
  IF p = 0 \/ p \notin DOMAIN T THEN T
  ELSE [k \in DOMAIN T |->
          IF k = p \/ k \in T[p].subtaskIds
          THEN [T[k] EXCEPT !.status = IF IsTerminalOrSplit(@) THEN @ ELSE "done"]
          ELSE T[k]]

\* checkAndCompleteParent of _handleParentCompletion: the task map after the
\* auto-completion of the ancestors of currentTask.
RECURSIVE checkAndCompleteParent(_, _, _)
checkAndCompleteParent(T, currentTask, now) ==
  LET p == T[currentTask].parentId IN
  IF p = 0 \/ p \notin DOMAIN T THEN T
  ELSE IF T[p].status \notin {"pending", "active", "split"} THEN T
  ELSE IF ~ T[p].hasSubtaskIds THEN T
  ELSE IF \A subId \in T[p].subtaskIds :
             subId \in DOMAIN T /\ IsTerminalOrSplit(T[subId].status)
       THEN checkAndCompleteParent(
              [T EXCEPT ![p].status = "done", ![p].updatedAt = now], p, now)
       ELSE T

\* The ancestors checkAndCompleteParent set to done, between T and its result.
AutoCompleted(T, T2) == {k \in DOMAIN T : T[k].status # T2[k].status}

\* Whether _handleParentCompletion may (can) or has to (must) end in a
\* RangeError while it computes treeCompletionStatus.
_handleParentCompletionThrows(T, T2, changedTask) ==
  LET checked == AutoCompleted(T, T2) \cup
                   (IF T2[changedTask].parentId = 0 THEN {changedTask} ELSE {})
      can == \E k \in checked : "overflow" \in _areAllDescendantsStatus(T2, k, "done")
      must == \E k \in checked : _areAllDescendantsStatus(T2, k, "done") = {"overflow"}
  IN IF must THEN {TRUE} ELSE IF can THEN {TRUE, FALSE} ELSE {FALSE}

\* The completed flag as markTaskDone, markTaskFailed and getNextTask compute it.
allTasksInRequestTerminalOrSplit(T) == \A k \in DOMAIN T : IsTerminalOrSplit(T[k].status)

SetTasks(r, T) == [requestsMap EXCEPT ![r].tasks = T]

\* A call that throws err and changes nothing.
Fail(op, r, t, err) ==
  /\ result' = Returned(op, r, 0, err)
  /\ UNCHANGED <<fileVars, sqlVars, clock>>

\* A call that returns st and changes nothing.
NoChange(op, r, t, st) ==
  /\ result' = Returned(op, r, t, st)
  /\ UNCHANGED <<fileVars, sqlVars, clock>>

\* A call that returns st and leaves request r with the task map T.
Saved(op, r, t, st, T) ==
  /\ requestsMap' = SetTasks(r, T)
  /\ result' = Returned(op, r, IF st \in Errors THEN 0 ELSE t, st)
  /\ UNCHANGED <<requestCounter, taskCounter, completedTasksData, sqlVars, clock>>

requestPlanningUpTo(taskDefs, maxRequests) ==
  /\ requestCounter < maxRequests
  /\ taskCounter + Len(taskDefs) <= MaxTaskId
  /\ Len(taskDefs) <= MaxLiveTasks
  /\ LET requestId == requestCounter + 1
         newTasks == [k \in (taskCounter + 1)..(taskCounter + Len(taskDefs)) |->
                        NewTask(IF taskDefs[k - taskCounter].priority # ""
                                THEN taskDefs[k - taskCounter].priority ELSE "medium",
                                taskDefs[k - taskCounter].dependsOn, 0, clock)]
     IN /\ requestsMap' = [r \in DOMAIN requestsMap \cup {requestId} |->
                             IF r = requestId
                             THEN [completed |-> FALSE, tasks |-> newTasks]
                             ELSE requestsMap[r]]
        /\ requestCounter' = requestId
        /\ taskCounter' = taskCounter + Len(taskDefs)
        /\ result' = Returned("requestPlanning", requestId, 0, "planned")
  /\ UNCHANGED <<completedTasksData, sqlVars, clock>>

\* requestPlanning while fewer than MaxRequestId requests were planned.
requestPlanning(taskDefs) == requestPlanningUpTo(taskDefs, MaxRequestId)

\* Rank of getNextTask's sort: status, then priority, then numeric id.
statusOrder(s) == CASE s = "active" -> 0 [] s = "pending" -> 1 [] OTHER -> 2
priorityOrder(p) == CASE p = "high" -> 0 [] p = "medium" -> 1 [] OTHER -> 2

\* SortsBefore with the priority compared before the status.
SortsBefore_PriorityFirst(T, a, b) ==
  IF priorityOrder(T[a].priority) # priorityOrder(T[b].priority)
  THEN priorityOrder(T[a].priority) < priorityOrder(T[b].priority)
  ELSE IF statusOrder(T[a].status) # statusOrder(T[b].status)
  THEN statusOrder(T[a].status) < statusOrder(T[b].status)
  ELSE a < b

SortsBefore(T, a, b) ==
  IF statusOrder(T[a].status) # statusOrder(T[b].status)
  THEN statusOrder(T[a].status) < statusOrder(T[b].status)
  ELSE IF priorityOrder(T[a].priority) # priorityOrder(T[b].priority)
  THEN priorityOrder(T[a].priority) < priorityOrder(T[b].priority)
  ELSE a < b

\* areDependenciesMet without the lookup failing for an id the map lacks.
areDependenciesMet_MissingIsMet(T, t) ==
  \A depId \in T[t].dependsOn : depId \in DOMAIN T => T[depId].status = "done"

areDependenciesMet(T, t) ==
  \A depId \in T[t].dependsOn : depId \in DOMAIN T /\ T[depId].status = "done"

\* actionableTasks without the test that the parent lists the task.
actionableTasks_ParentNeedNotListIt(T) ==
  {t \in DOMAIN T :
     /\ ~ IsTerminalOrSplit(T[t].status)
     /\ LET p == T[t].parentId IN
        IF p # 0 /\ p \in DOMAIN T /\ T[p].status \in {"active", "pending", "split"}
        THEN /\ T[p].status \in {"active", "split"}
             /\ areDependenciesMet(T, t)
        ELSE areDependenciesMet(T, t)}

actionableTasks(T) ==
  {t \in DOMAIN T :
     /\ ~ IsTerminalOrSplit(T[t].status)
     /\ LET p == T[t].parentId IN
        IF p # 0 /\ p \in DOMAIN T /\ T[p].status \in {"active", "pending", "split"}
        THEN /\ T[p].status \in {"active", "split"}
             /\ T[p].hasSubtaskIds /\ t \in T[p].subtaskIds
             /\ areDependenciesMet(T, t)
        ELSE areDependenciesMet(T, t)}

potentialNextTasks(T) ==
  LET act == actionableTasks(T)
      ready == {t \in act : T[t].status \in {"pending", "active"}}
  IN IF ready = {} THEN {t \in act : T[t].status = "requires_clarification"} ELSE ready

\* getNextTask that marks the task it returns active whatever its status was.
getNextTask_ActivatesWhateverItReturns(r) ==
  IF r \notin DOMAIN requestsMap THEN Fail("getNextTask", r, 0, "NotFound")
  ELSE LET T == requestsMap[r].tasks
           cands == potentialNextTasks(T)
       IN
       IF requestsMap[r].completed
       THEN NoChange("getNextTask", r, 0, "already_completed")
       ELSE IF cands = {}
       THEN IF allTasksInRequestTerminalOrSplit(T)
            THEN /\ requestsMap' = [requestsMap EXCEPT ![r].completed = TRUE]
                 /\ result' = Returned("getNextTask", r, 0, "all_tasks_terminal_request_completed")
                 /\ UNCHANGED <<requestCounter, taskCounter, completedTasksData, sqlVars, clock>>
            ELSE NoChange("getNextTask", r, 0, "no_actionable_task")
       ELSE LET nextTask == CHOOSE a \in cands : \A b \in cands \ {a} : SortsBefore(T, a, b)
            IN /\ requestsMap' = SetTasks(r, [T EXCEPT ![nextTask].status = "active",
                                                        ![nextTask].updatedAt = clock])
               /\ result' = Returned("getNextTask", r, nextTask, "next_task")
               /\ UNCHANGED <<requestCounter, taskCounter, completedTasksData, sqlVars, clock>>

getNextTask(r) ==
  IF r \notin DOMAIN requestsMap THEN Fail("getNextTask", r, 0, "NotFound")
  ELSE LET T == requestsMap[r].tasks
           cands == potentialNextTasks(T)
       IN
       IF requestsMap[r].completed
       THEN NoChange("getNextTask", r, 0, "already_completed")
       ELSE IF cands = {}
       THEN IF allTasksInRequestTerminalOrSplit(T)
            THEN /\ requestsMap' = [requestsMap EXCEPT ![r].completed = TRUE]
                 /\ result' = Returned("getNextTask", r, 0, "all_tasks_terminal_request_completed")
                 /\ UNCHANGED <<requestCounter, taskCounter, completedTasksData, sqlVars, clock>>
            ELSE NoChange("getNextTask", r, 0, "no_actionable_task")
       ELSE LET nextTask == CHOOSE a \in cands : \A b \in cands \ {a} : SortsBefore(T, a, b)
                p == T[nextTask].parentId
                T1 == IF p # 0 /\ p \in DOMAIN T /\ T[p].status = "pending"
                      THEN [T EXCEPT ![p].status = "active", ![p].updatedAt = clock]
                      ELSE T
                T2 == [T1 EXCEPT ![nextTask].status = "active", ![nextTask].updatedAt = clock]
            IN /\ requestsMap' = IF T[nextTask].status = "pending" THEN SetTasks(r, T2)
                                 ELSE requestsMap
               /\ result' = Returned("getNextTask", r, nextTask, "next_task")
               /\ UNCHANGED <<requestCounter, taskCounter, completedTasksData, sqlVars, clock>>

\* The part markTaskDone and markTaskFailed share once the task is updated:
\* T1 is the task map with the new status of t.
MarkTerminal(op, r, t, T1, ok) ==
  LET T2 == checkAndCompleteParent(T1, t, clock)
  IN \E thrown \in _handleParentCompletionThrows(T1, T2, t) :
       /\ requestsMap' =
            [requestsMap EXCEPT
               ![r].tasks = T2,
               ![r].completed = IF thrown THEN @
                                ELSE @ \/ allTasksInRequestTerminalOrSplit(T2)]
       /\ result' = Returned(op, r, IF thrown THEN 0 ELSE t, IF thrown THEN "RangeError" ELSE ok)
       /\ UNCHANGED <<requestCounter, taskCounter, completedTasksData, sqlVars, clock>>

\* markTaskDone without the early return for a task that is already done:
\* such a call goes on to rewrite the task.
markTaskDone_NoEarlyReturn(r, t) ==
  IF r \notin DOMAIN requestsMap \/ t \notin DOMAIN requestsMap[r].tasks
  THEN Fail("markTaskDone", r, t, "NotFound")
  ELSE LET T == requestsMap[r].tasks IN
       IF T[t].status = "failed" THEN Fail("markTaskDone", r, t, "InvalidOperation")
       ELSE IF T[t].status = "split" THEN Fail("markTaskDone", r, t, "InvalidOperation")
       ELSE MarkTerminal("markTaskDone", r, t,
                         [T EXCEPT ![t].status = "done",
                                   ![t].suggestedRetryStrategy = "",
                                   ![t].updatedAt = clock],
                         "task_marked_done")

\* markTaskDone without the check that refuses a split task: such a call
\* goes on to mark the container done.
markTaskDone_NoSplitCheck(r, t) ==
  IF r \notin DOMAIN requestsMap \/ t \notin DOMAIN requestsMap[r].tasks
  THEN Fail("markTaskDone", r, t, "NotFound")
  ELSE LET T == requestsMap[r].tasks IN
       IF T[t].status = "done" THEN NoChange("markTaskDone", r, t, "already_done")
       ELSE IF T[t].status = "failed" THEN Fail("markTaskDone", r, t, "InvalidOperation")
       ELSE MarkTerminal("markTaskDone", r, t,
                         [T EXCEPT ![t].status = "done",
                                   ![t].suggestedRetryStrategy = "",
                                   ![t].updatedAt = clock],
                         "task_marked_done")

markTaskDone(r, t) ==
  IF r \notin DOMAIN requestsMap \/ t \notin DOMAIN requestsMap[r].tasks
  THEN Fail("markTaskDone", r, t, "NotFound")
  ELSE LET T == requestsMap[r].tasks IN
       IF T[t].status = "done" THEN NoChange("markTaskDone", r, t, "already_done")
       ELSE IF T[t].status = "failed" THEN Fail("markTaskDone", r, t, "InvalidOperation")
       ELSE IF T[t].status = "split" THEN Fail("markTaskDone", r, t, "InvalidOperation")
       ELSE MarkTerminal("markTaskDone", r, t,
                         [T EXCEPT ![t].status = "done",
                                   ![t].suggestedRetryStrategy = "",
                                   ![t].updatedAt = clock],
                         "task_marked_done")

\* markTaskFailed without the check that refuses a task that is done: such a
\* call goes on to mark the task failed.
markTaskFailed_NoDoneCheck(r, t, suggestedRetryStrategy) ==
  IF r \notin DOMAIN requestsMap \/ t \notin DOMAIN requestsMap[r].tasks
  THEN Fail("markTaskFailed", r, t, "NotFound")
  ELSE LET T == requestsMap[r].tasks IN
       IF T[t].status = "failed" THEN NoChange("markTaskFailed", r, t, "already_failed")
       ELSE IF T[t].status = "split" THEN Fail("markTaskFailed", r, t, "InvalidOperation")
       ELSE MarkTerminal("markTaskFailed", r, t,
                         [T EXCEPT ![t].status = "failed",
                                   ![t].suggestedRetryStrategy =
                                      IF suggestedRetryStrategy # "" THEN suggestedRetryStrategy ELSE @,
                                   ![t].updatedAt = clock],
                         "task_marked_failed")

markTaskFailed(r, t, suggestedRetryStrategy) ==
  IF r \notin DOMAIN requestsMap \/ t \notin DOMAIN requestsMap[r].tasks
  THEN Fail("markTaskFailed", r, t, "NotFound")
  ELSE LET T == requestsMap[r].tasks IN
       IF T[t].status = "failed" THEN NoChange("markTaskFailed", r, t, "already_failed")
       ELSE IF T[t].status = "done" THEN Fail("markTaskFailed", r, t, "InvalidOperation")
       ELSE IF T[t].status = "split" THEN Fail("markTaskFailed", r, t, "InvalidOperation")
       ELSE MarkTerminal("markTaskFailed", r, t,
                         [T EXCEPT ![t].status = "failed",
                                   ![t].suggestedRetryStrategy =
                                      IF suggestedRetryStrategy # "" THEN suggestedRetryStrategy ELSE @,
                                   ![t].updatedAt = clock],
                         "task_marked_failed")

\* updates: [title, priority, status, suggestedRetryStrategy]; << >> or "" is
\* a field the call does not pass.
updateTask(r, t, updates) ==
  IF r \notin DOMAIN requestsMap \/ t \notin DOMAIN requestsMap[r].tasks
  THEN Fail("updateTask", r, t, "NotFound")
  ELSE LET T == requestsMap[r].tasks
           task == T[t]
           newTitle == IF updates.title # << >> THEN updates.title ELSE task.title
           newPriority == IF updates.priority # "" THEN updates.priority ELSE task.priority
           newStatus == IF updates.status # "" THEN updates.status ELSE task.status
           retry == updates.suggestedRetryStrategy
           lateThrow == /\ retry # "" /\ task.suggestedRetryStrategy # retry
                        /\ newStatus # "failed"
           newRetry == IF retry # "" /\ ~ lateThrow THEN retry ELSE task.suggestedRetryStrategy
           task1 == [task EXCEPT !.title = newTitle, !.priority = newPriority,
                                 !.status = newStatus, !.suggestedRetryStrategy = newRetry]
       IN
       IF task.status = "done" /\ updates.status # "done"
       THEN Fail("updateTask", r, t, "InvalidOperation")
       ELSE IF task.status # "failed" /\ retry # ""
       THEN Fail("updateTask", r, t, "InvalidOperation")
       ELSE IF lateThrow
       THEN \* thrown after the other fields were assigned
            Saved("updateTask", r, t, "InvalidOperation", [T EXCEPT ![t] = task1])
       ELSE IF task1 = task THEN NoChange("updateTask", r, t, "no_change")
       ELSE Saved("updateTask", r, t, "task_updated",
                  [T EXCEPT ![t] = [task1 EXCEPT !.updatedAt = clock]])

\* deleteTask that hands the ids it freed back to the counter.
deleteTask_RewindsCounter(r, t) ==
  IF r \notin DOMAIN requestsMap \/ t \notin DOMAIN requestsMap[r].tasks
  THEN Fail("deleteTask", r, t, "NotFound")
  ELSE LET T == _removeTaskAndDescendantsFromRequest(requestsMap[r].tasks, t)
           live == UNION {DOMAIN requestsMap[q].tasks : q \in DOMAIN requestsMap \ {r}}
                     \cup DOMAIN T
       IN /\ requestsMap' = SetTasks(r, T)
          /\ taskCounter' = IF live = {} THEN 0
                            ELSE CHOOSE m \in live : \A k \in live : k <= m
          /\ result' = Returned("deleteTask", r, t, "task_deleted")
          /\ UNCHANGED <<requestCounter, completedTasksData, sqlVars, clock>>

deleteTask(r, t) ==
  IF r \notin DOMAIN requestsMap \/ t \notin DOMAIN requestsMap[r].tasks
  THEN Fail("deleteTask", r, t, "NotFound")
  ELSE Saved("deleteTask", r, t, "task_deleted",
             _removeTaskAndDescendantsFromRequest(requestsMap[r].tasks, t))

\* parentTaskId = 0: the call names no parent.
removeSubtask(r, subtaskId, parentTaskId) ==
  IF r \notin DOMAIN requestsMap \/ subtaskId \notin DOMAIN requestsMap[r].tasks
  THEN Fail("removeSubtask", r, subtaskId, "NotFound")
  ELSE LET T == requestsMap[r].tasks IN
       IF T[subtaskId].parentId = 0
       THEN Fail("removeSubtask", r, subtaskId, "InvalidOperation")
       ELSE IF parentTaskId # 0 /\ parentTaskId \notin DOMAIN T
       THEN Fail("removeSubtask", r, subtaskId, "NotFound")
       ELSE IF parentTaskId # 0 /\ T[subtaskId].parentId # parentTaskId
       THEN Fail("removeSubtask", r, subtaskId, "InvalidOperation")
       ELSE Saved("removeSubtask", r, subtaskId, "task_deleted",
                  _removeTaskAndDescendantsFromRequest(T, subtaskId))

\* def: [priority, dependsOn]; priority "" is inherited from the parent.
addSubtask(r, parentTaskId, def) ==
  IF r \notin DOMAIN requestsMap \/ parentTaskId \notin DOMAIN requestsMap[r].tasks
  THEN Fail("addSubtask", r, parentTaskId, "NotFound")
  ELSE LET T == requestsMap[r].tasks
           parentTask == T[parentTaskId]
           id == taskCounter + 1
           newSubtask == NewTask(IF def.priority # "" THEN def.priority ELSE parentTask.priority,
                                 def.dependsOn, parentTaskId, clock)
           T1 == [T EXCEPT ![parentTaskId].subtaskIds = @ \cup {id},
                           ![parentTaskId].hasSubtaskIds = TRUE,
                           ![parentTaskId].updatedAt = clock]
       IN
       IF requestsMap[r].completed THEN Fail("addSubtask", r, parentTaskId, "InvalidOperation")
       ELSE IF IsTerminal(parentTask.status)
       THEN Fail("addSubtask", r, parentTaskId, "InvalidOperation")
       ELSE /\ taskCounter < MaxTaskId
            /\ Cardinality(DOMAIN T) < MaxLiveTasks
            /\ requestsMap' = SetTasks(r, Push(T1, id, newSubtask))
            /\ taskCounter' = id
            /\ result' = Returned("addSubtask", r, parentTaskId, "subtask_added")
            /\ UNCHANGED <<requestCounter, completedTasksData, sqlVars, clock>>

addTasksToRequest(r, taskDefs) ==
  IF r \notin DOMAIN requestsMap THEN Fail("addTasksToRequest", r, 0, "NotFound")
  ELSE IF requestsMap[r].completed THEN Fail("addTasksToRequest", r, 0, "InvalidOperation")
  ELSE LET T == requestsMap[r].tasks
           ids == (taskCounter + 1)..(taskCounter + Len(taskDefs))
       IN /\ taskCounter + Len(taskDefs) <= MaxTaskId
          /\ Cardinality(DOMAIN T) + Len(taskDefs) <= MaxLiveTasks
          /\ requestsMap' = SetTasks(r,
               [k \in DOMAIN T \cup ids |->
                  IF k \in ids
                  THEN NewTask(IF taskDefs[k - taskCounter].priority # ""
                               THEN taskDefs[k - taskCounter].priority ELSE "medium",
                               taskDefs[k - taskCounter].dependsOn, 0, clock)
                  ELSE T[k]])
          /\ taskCounter' = taskCounter + Len(taskDefs)
          /\ result' = Returned("addTasksToRequest", r, 0, "tasks_added")
          /\ UNCHANGED <<requestCounter, completedTasksData, sqlVars, clock>>

\* The bundle archiveTaskTree pushes: deep copies of the root and its descendants.
ArchivedTaskBundle(r, T, rootTask, now) ==
  [originalRequestId |-> r, archivedRootTask |-> rootTask,
   archivedTasks |-> Filter(T, _collectTaskWithDescendants(T, rootTask)),
   archivedAt |-> now]

\* archiveTaskTree that takes only the root out of the live tasks.
archiveTaskTree_RemovesOnlyTheRoot(r, t) ==
  IF r \notin DOMAIN requestsMap \/ t \notin DOMAIN requestsMap[r].tasks
  THEN Fail("archiveTaskTree", r, t, "NotFound")
  ELSE LET T == requestsMap[r].tasks IN
       \E allDone \in _areAllDescendantsStatus(T, t, "done") :
          IF allDone = "false" THEN Fail("archiveTaskTree", r, t, "InvalidOperation")
          ELSE IF allDone = "overflow" THEN Fail("archiveTaskTree", r, t, "RangeError")
          ELSE /\ completedTasksData' = Append(completedTasksData, ArchivedTaskBundle(r, T, t, clock))
               /\ requestsMap' = SetTasks(r, Filter(T, DOMAIN T \ {t}))
               /\ result' = Returned("archiveTaskTree", r, t, "task_tree_archived")
               /\ UNCHANGED <<requestCounter, taskCounter, sqlVars, clock>>

archiveTaskTree(r, t) ==
  IF r \notin DOMAIN requestsMap \/ t \notin DOMAIN requestsMap[r].tasks
  THEN Fail("archiveTaskTree", r, t, "NotFound")
  ELSE LET T == requestsMap[r].tasks IN
       \E allDone \in _areAllDescendantsStatus(T, t, "done") :
          IF allDone = "false" THEN Fail("archiveTaskTree", r, t, "InvalidOperation")
          ELSE IF allDone = "overflow" THEN Fail("archiveTaskTree", r, t, "RangeError")
          ELSE /\ completedTasksData' = Append(completedTasksData, ArchivedTaskBundle(r, T, t, clock))
               /\ requestsMap' = SetTasks(r, _removeTaskAndDescendantsFromRequest(T, t))
               /\ result' = Returned("archiveTaskTree", r, t, "task_tree_archived")
               /\ UNCHANGED <<requestCounter, taskCounter, sqlVars, clock>>

\* addDependency without the test that the target already depends on the task.
addDependency_NoCircularCheck(r, t, dependsOnTaskId) ==
  IF \/ r \notin DOMAIN requestsMap
     \/ t \notin DOMAIN requestsMap[r].tasks
     \/ dependsOnTaskId \notin DOMAIN requestsMap[r].tasks
  THEN Fail("addDependency", r, t, "NotFound")
  ELSE LET T == requestsMap[r].tasks IN
       IF t = dependsOnTaskId
       THEN Fail("addDependency", r, t, "InvalidOperation")
       ELSE IF dependsOnTaskId \in T[t].dependsOn
       THEN NoChange("addDependency", r, t, "no_change")
       ELSE Saved("addDependency", r, t, "dependency_added",
                  [T EXCEPT ![t].dependsOn = @ \cup {dependsOnTaskId},
                            ![t].updatedAt = clock])

addDependency(r, t, dependsOnTaskId) ==
  IF \/ r \notin DOMAIN requestsMap
     \/ t \notin DOMAIN requestsMap[r].tasks
     \/ dependsOnTaskId \notin DOMAIN requestsMap[r].tasks
  THEN Fail("addDependency", r, t, "NotFound")
  ELSE LET T == requestsMap[r].tasks IN
       IF t = dependsOnTaskId
       THEN Fail("addDependency", r, t, "InvalidOperation")
       ELSE IF t \in T[dependsOnTaskId].dependsOn
       THEN Fail("addDependency", r, t, "InvalidOperation")
       ELSE IF dependsOnTaskId \in T[t].dependsOn
       THEN NoChange("addDependency", r, t, "no_change")
       ELSE Saved("addDependency", r, t, "dependency_added",
                  [T EXCEPT ![t].dependsOn = @ \cup {dependsOnTaskId},
                            ![t].updatedAt = clock])

removeDependency(r, t, dependsOnTaskId) ==
  IF r \notin DOMAIN requestsMap \/ t \notin DOMAIN requestsMap[r].tasks
  THEN Fail("removeDependency", r, t, "NotFound")
  ELSE LET T == requestsMap[r].tasks IN
       IF dependsOnTaskId \notin T[t].dependsOn
       THEN NoChange("removeDependency", r, t, "no_change")
       ELSE Saved("removeDependency", r, t, "dependency_removed",
                  [T EXCEPT ![t].dependsOn = @ \ {dependsOnTaskId},
                            ![t].updatedAt = clock])

\* The issue strings of validateDependencies, by what they name:
\* "Task t depends on non-existent task d" and "Circular dependency: t -> ... -> d".
MissingIssue(t, d) == <<"missing", t, d>>
CycleIssue(t, d) == <<"cycle", t, d>>

\* detectCycle of validateDependencies.  s holds visited, recursionStack,
\* cycleFound and issues.  The callback of forEach has no test of cycleFound
\* on entry, so the dependencies after the one that closed a cycle are still
\* looked at.  dependsOn is kept as a set here, so every order of the forEach
\* is an outcome: the result is the set of the states the search can end in.
RECURSIVE detectCycle(_, _, _)
RECURSIVE ForEachDependsOn(_, _, _, _)

\* detectCycle without the removal of the task from recursionStack on return.
detectCycle_StackNeverPopped(T, taskId, s) ==
  IF s.cycleFound THEN {s}
  ELSE ForEachDependsOn(T, taskId, T[taskId].dependsOn,
                        [s EXCEPT !.visited = @ \cup {taskId},
                                  !.recursionStack = @ \cup {taskId}])

detectCycle(T, taskId, s) ==
  IF s.cycleFound THEN {s}
  ELSE LET s1 == [s EXCEPT !.visited = @ \cup {taskId},
                           !.recursionStack = @ \cup {taskId}]
       IN {[s2 EXCEPT !.recursionStack = @ \ {taskId}] :
             s2 \in ForEachDependsOn(T, taskId, T[taskId].dependsOn, s1)}

ForEachDependsOn(T, taskId, rest, s) ==
  IF rest = {} THEN {s}
  ELSE UNION {LET after == IF depId \notin DOMAIN T THEN {s}
                           ELSE IF depId \notin s.visited THEN detectCycle(T, depId, s)
                           ELSE IF depId \in s.recursionStack
                           THEN {[s EXCEPT !.issues = @ \cup {CycleIssue(taskId, depId)},
                                           !.cycleFound = TRUE]}
                           ELSE {s}
              IN UNION {ForEachDependsOn(T, taskId, rest \ {depId}, s2) : s2 \in after} :
              depId \in rest}

\* The loop over reqEntry.tasks that starts detectCycle; the array is in the
\* order of creation, which is the order of the ids.
RECURSIVE DetectFrom(_, _, _)
DetectFrom(T, k, S) ==
  IF k > MaxTaskId THEN S
  ELSE DetectFrom(T, k + 1,
                  UNION {IF k \in DOMAIN T /\ k \notin s.visited /\ ~ s.cycleFound
                         THEN detectCycle(T, k, s) ELSE {s} : s \in S})

validateDependencies(r) ==
  IF r \notin DOMAIN requestsMap THEN Fail("validateDependencies", r, 0, "NotFound")
  ELSE LET T == requestsMap[r].tasks
           missing == UNION {{MissingIssue(t, d) : d \in T[t].dependsOn \ DOMAIN T} :
                               t \in DOMAIN T}
           start == [visited |-> {}, recursionStack |-> {}, cycleFound |-> FALSE,
                     issues |-> missing]
       IN \E s \in DetectFrom(T, 1, {start}) :
            /\ result' = [Returned("validateDependencies", r, 0,
                                   IF s.issues # {} THEN "validation_failed"
                                   ELSE "validation_passed")
                          EXCEPT !.issues = s.issues]
            /\ UNCHANGED <<fileVars, sqlVars, clock>>

\* newSubtaskDefinitions: sequence of [priority, dependsOn].
splitTask(r, t, newSubtaskDefinitions) ==
  IF r \notin DOMAIN requestsMap \/ t \notin DOMAIN requestsMap[r].tasks
  THEN Fail("splitTask", r, t, "NotFound")
  ELSE LET T == requestsMap[r].tasks
           originalTask == T[t]
           n == Len(newSubtaskDefinitions)
           ids == (taskCounter + 1)..(taskCounter + n)
           T1 == [T EXCEPT ![t].status = "split",
                           ![t].title = <<"[SPLIT]">> \o @,
                           ![t].subtaskIds = @ \cup ids,
                           ![t].hasSubtaskIds = TRUE,
                           ![t].updatedAt = clock]
       IN
       IF IsTerminal(originalTask.status) THEN Fail("splitTask", r, t, "InvalidOperation")
       ELSE IF originalTask.status = "split" THEN Fail("splitTask", r, t, "InvalidOperation")
       ELSE /\ taskCounter + n <= MaxTaskId
            /\ Cardinality(DOMAIN T) + n <= MaxLiveTasks
            /\ requestsMap' =
                 [requestsMap EXCEPT
                    ![r].completed = FALSE,
                    ![r].tasks =
                       [k \in DOMAIN T \cup ids |->
                          IF k \in ids
                          THEN LET subDef == newSubtaskDefinitions[k - taskCounter] IN
                               NewTask(IF subDef.priority # "" THEN subDef.priority
                                       ELSE originalTask.priority,
                                       subDef.dependsOn, t, clock)
                          ELSE T1[k]]]
            /\ taskCounter' = taskCounter + n
            /\ result' = Returned("splitTask", r, t, "task_split")
            /\ UNCHANGED <<requestCounter, completedTasksData, sqlVars, clock>>

\* The loop of mergeTasks over taskIdsToMerge, from index i on.  It re-parents
\* the subtasks of each source as it goes and stops at the first source that
\* is missing or not mergeable; err is then the error it throws.
RECURSIVE MergeLoop(_, _, _, _, _, _)
MergeLoop(T, primaryTaskId, taskIdsToMerge, i, uniqueSubtaskIds, uniqueDependsOn) ==
  IF i > Len(taskIdsToMerge)
  THEN [tasks |-> T, subtaskIds |-> uniqueSubtaskIds, dependsOn |-> uniqueDependsOn, err |-> ""]
  ELSE LET idToMerge == taskIdsToMerge[i] IN
       IF idToMerge \notin DOMAIN T
       THEN [tasks |-> T, subtaskIds |-> uniqueSubtaskIds, dependsOn |-> uniqueDependsOn,
             err |-> "NotFound"]
       ELSE IF IsTerminalOrSplit(T[idToMerge].status)
       THEN [tasks |-> T, subtaskIds |-> uniqueSubtaskIds, dependsOn |-> uniqueDependsOn,
             err |-> "InvalidOperation"]
       ELSE LET subs == LiveSubs(T, idToMerge)
                T1 == [k \in DOMAIN T |->
                         IF k \in subs
                         THEN [T[k] EXCEPT !.parentId = primaryTaskId, !.updatedAt = clock]
                         ELSE T[k]]
            IN MergeLoop(T1, primaryTaskId, taskIdsToMerge, i + 1,
                         uniqueSubtaskIds \cup subs,
                         uniqueDependsOn \cup (T[idToMerge].dependsOn \ {primaryTaskId}))

Range(seq) == {seq[i] : i \in DOMAIN seq}

\* overrides: [title, priority]; << >> or "" keeps the primary task's value.
mergeTasks(r, primaryTaskId, taskIdsToMerge, overrides) ==
  IF r \notin DOMAIN requestsMap \/ primaryTaskId \notin DOMAIN requestsMap[r].tasks
  THEN Fail("mergeTasks", r, primaryTaskId, "NotFound")
  ELSE LET T == requestsMap[r].tasks
           primaryTask == T[primaryTaskId]
           merged == Range(taskIdsToMerge)
           loop == MergeLoop(T, primaryTaskId, taskIdsToMerge, 1,
                             primaryTask.subtaskIds, primaryTask.dependsOn)
           L == loop.tasks
           T1 == [L EXCEPT
                    ![primaryTaskId].title =
                       IF overrides.title # << >> THEN overrides.title ELSE @,
                    ![primaryTaskId].priority =
                       IF overrides.priority # "" THEN overrides.priority ELSE @,
                    ![primaryTaskId].subtaskIds = loop.subtaskIds,
                    ![primaryTaskId].hasSubtaskIds = TRUE,
                    ![primaryTaskId].dependsOn = loop.dependsOn,
                    ![primaryTaskId].updatedAt = clock]
           T2 == [k \in DOMAIN T1 |->
                    IF k = primaryTaskId \/ k \in merged THEN T1[k]
                    ELSE IF T1[k].dependsOn \cap merged # {}
                    THEN [T1[k] EXCEPT !.dependsOn = (@ \ merged) \cup {primaryTaskId},
                                       !.updatedAt = clock]
                    ELSE T1[k]]
       IN
       IF primaryTaskId \in merged
       THEN Fail("mergeTasks", r, primaryTaskId, "InvalidOperation")
       ELSE IF IsTerminalOrSplit(primaryTask.status)
       THEN Fail("mergeTasks", r, primaryTaskId, "InvalidOperation")
       ELSE IF loop.err # ""
       THEN \* thrown from inside the loop: the re-parenting done so far stays
            Saved("mergeTasks", r, primaryTaskId, loop.err, L)
       ELSE Saved("mergeTasks", r, primaryTaskId, "tasks_merged",
                  Filter(T2, DOMAIN T2 \ merged))

(***************************************************************************)
(* ---------------------- SQLite-backed server --------------------------- *)
(* Operators named repo_ are methods of TaskRepository, operators named    *)
(* sql_ are methods of the SQLite-backed TaskManagerServer.  db is the     *)
(* record [requests, tasks, archived_tasks] of the three tables.           *)
(***************************************************************************)

\* The Task object read from a row; the caller keeps it while the row changes.
rowToTask(tk, taskId) ==
  [id |-> taskId, status |-> tk[taskId].status, priority |-> tk[taskId].priority,
   dependsOn |-> tk[taskId].dependsOn, parentId |-> tk[taskId].parentId,
   subtaskIds |-> tk[taskId].subtaskIds, createdAt |-> tk[taskId].createdAt]

\* The row createTask inserts for the object literals of the server.
taskToRow(requestId, parentId, priority, dependsOn, now) ==
  [requestId |-> requestId, parentId |-> parentId, status |-> "pending",
   priority |-> IF priority # "" THEN priority ELSE "medium",
   dependsOn |-> dependsOn, subtaskIds |-> {}, createdAt |-> now, updatedAt |-> now]

findTasksByRequestId(tk, requestId) == {k \in DOMAIN tk : tk[k].requestId = requestId}

updateTaskStatus(tk, taskId, status, now) ==
  IF taskId \in DOMAIN tk
  THEN [tk EXCEPT ![taskId].status = status, ![taskId].updatedAt = now]
  ELSE tk

updateTaskFailure(tk, taskId, now) ==
  IF taskId \in DOMAIN tk
  THEN [tk EXCEPT ![taskId].status = "failed", ![taskId].updatedAt = now]
  ELSE tk

\* Rows that go with the rows in gone: FOREIGN KEY (parentId) REFERENCES
\* tasks(taskId) ON DELETE CASCADE, with PRAGMA foreign_keys = ON.
RECURSIVE OnDeleteCascade(_, _)
OnDeleteCascade(tk, gone) ==
  LET more == {k \in DOMAIN tk \ gone : tk[k].parentId \in gone}
  IN IF more = {} THEN gone ELSE OnDeleteCascade(tk, gone \cup more)

\* DELETE FROM tasks WHERE taskId = ?
repo_deleteTask(tk, taskId) ==
  IF taskId \in DOMAIN tk
  THEN Filter(tk, DOMAIN tk \ OnDeleteCascade(tk, {taskId}))
  ELSE tk

repo_addSubtask(tk, parentId, subtaskId, now) ==
  IF parentId \in DOMAIN tk /\ subtaskId \notin tk[parentId].subtaskIds
  THEN [tk EXCEPT ![parentId].subtaskIds = @ \cup {subtaskId}, ![parentId].updatedAt = now]
  ELSE tk

repo_removeSubtask(tk, parentId, subtaskId, now) ==
  IF parentId \in DOMAIN tk /\ subtaskId \in tk[parentId].subtaskIds
  THEN [tk EXCEPT ![parentId].subtaskIds = @ \ {subtaskId}, ![parentId].updatedAt = now]
  ELSE tk

\* The loop of TaskRepository.archiveTaskTree over taskIds, from index i on.
RECURSIVE repo_archiveTaskTree(_, _, _, _, _, _)
repo_archiveTaskTree(db, taskIds, originalRequestId, i, now, archivedCount) ==
  IF i > Len(taskIds) THEN [db |-> db, archivedCount |-> archivedCount]
  ELSE LET taskId == taskIds[i] IN
       IF taskId \in DOMAIN db.tasks
       THEN LET row == db.tasks[taskId]
                archivedRow == [originalRequestId |-> originalRequestId,
                                parentId |-> row.parentId, status |-> row.status,
                                priority |-> row.priority,
                                dependsOn |-> row.dependsOn, subtaskIds |-> row.subtaskIds,
                                createdAt |-> row.createdAt,
                                updatedAt |-> row.updatedAt, archivedAt |-> now]
            IN repo_archiveTaskTree(
                 [db EXCEPT !.archived_tasks = Push(@, taskId, archivedRow),
                            !.tasks = repo_deleteTask(@, taskId)],
                 taskIds, originalRequestId, i + 1, now, archivedCount + 1)
       ELSE repo_archiveTaskTree(db, taskIds, originalRequestId, i + 1, now, archivedCount)

\* The recursion reads task.status from the object it is handed and the
\* subtasks from the table.
RECURSIVE sql_areAllDescendantsStatus(_, _, _)
sql_areAllDescendantsStatus(tk, task, targetStatus) ==
  /\ \A subtaskId \in task.subtaskIds :
        /\ subtaskId \in DOMAIN tk
        /\ sql_areAllDescendantsStatus(tk, rowToTask(tk, subtaskId), targetStatus)
  /\ task.status = targetStatus

RECURSIVE sql_isTaskTreeFullyTerminal(_, _)
sql_isTaskTreeFullyTerminal(tk, task) ==
  /\ IsTerminal(task.status)
  /\ \A subtaskId \in task.subtaskIds :
        /\ subtaskId \in DOMAIN tk
        /\ sql_isTaskTreeFullyTerminal(tk, rowToTask(tk, subtaskId))

\* Pre-order list of the ids of task and its descendants; subtaskIds are
\* visited in the order they were appended, which is the order of the ids.
RECURSIVE sql_collectTaskWithDescendants(_, _)
RECURSIVE CollectSubtasks(_, _)
sql_collectTaskWithDescendants(tk, task) ==
  <<task.id>> \o CollectSubtasks(tk, task.subtaskIds)

CollectSubtasks(tk, subtaskIds) ==
  IF subtaskIds = {} THEN << >>
  ELSE LET subtaskId == CHOOSE x \in subtaskIds : \A y \in subtaskIds : x <= y
           rest == CollectSubtasks(tk, subtaskIds \ {subtaskId})
       IN IF subtaskId \in DOMAIN tk
          THEN sql_collectTaskWithDescendants(tk, rowToTask(tk, subtaskId)) \o rest
          ELSE rest

\* The tables after archiving taskIds and closing the request when no task
\* of it is left.
ArchiveAndClose(db, requestId, taskIds, now, needsCount) ==
  LET done == repo_archiveTaskTree(db, taskIds, requestId, 1, now, 0)
      left == findTasksByRequestId(done.db.tasks, requestId)
  IN IF (needsCount => done.archivedCount > 0) /\ left = {}
     THEN [done.db EXCEPT !.requests[requestId].completed = TRUE]
     ELSE done.db

sql_autoArchiveTaskTree(db, requestId, task, now) ==
  IF ~ sql_isTaskTreeFullyTerminal(db.tasks, task) THEN db
  ELSE ArchiveAndClose(db, requestId, sql_collectTaskWithDescendants(db.tasks, task), now, TRUE)

\* completedTask is the object the caller read before it updated the row.
RECURSIVE sql_handleParentCompletion(_, _, _, _)
sql_handleParentCompletion(db, requestId, completedTask, now) ==
  IF completedTask.parentId = 0
  THEN sql_autoArchiveTaskTree(db, requestId, completedTask, now)
  ELSE IF completedTask.parentId \notin DOMAIN db.tasks THEN db
  ELSE LET parent == rowToTask(db.tasks, completedTask.parentId)
           allSiblingsDone ==
             \A siblingId \in parent.subtaskIds :
                siblingId \in DOMAIN db.tasks /\ db.tasks[siblingId].status = "done"
       IN IF allSiblingsDone
          THEN sql_handleParentCompletion(
                 [db EXCEPT !.tasks = updateTaskStatus(@, parent.id, "done", now)],
                 requestId, parent, now)
          ELSE db

Db == [requests |-> requests, tasks |-> tasks, archived_tasks |-> archived_tasks]

\* A call of the SQLite-backed server that leaves the tables db.
Stored(op, r, t, st, db) ==
  /\ requests' = db.requests
  /\ tasks' = db.tasks
  /\ archived_tasks' = db.archived_tasks
  /\ result' = Returned(op, r, t, st)
  /\ UNCHANGED <<fileVars, metadata, writers, clock>>

\* _getRequestEntryOrThrow and _getTaskOrThrow find the request and the task.
Found(r, t) == r \in DOMAIN requests /\ t \in findTasksByRequestId(tasks, r)

sql_requestPlanningUpTo(taskDefs, maxRequests) ==
  /\ metadata.lastRequestId < maxRequests
  /\ metadata.lastTaskId + Len(taskDefs) <= MaxTaskId
  /\ Len(taskDefs) <= MaxLiveTasks
  /\ LET requestId == metadata.lastRequestId + 1
         n == Len(taskDefs)
         ids == (metadata.lastTaskId + 1)..(metadata.lastTaskId + n)
     IN /\ requests' = Push(requests, requestId, [completed |-> FALSE])
        /\ tasks' = [k \in DOMAIN tasks \cup ids |->
                       IF k \in ids
                       THEN taskToRow(requestId, 0, taskDefs[k - metadata.lastTaskId].priority,
                                      taskDefs[k - metadata.lastTaskId].dependsOn, clock)
                       ELSE tasks[k]]
        /\ metadata' = [lastRequestId |-> requestId, lastTaskId |-> metadata.lastTaskId + n]
        /\ result' = Returned("sql_requestPlanning", requestId, 0, "planned")
  /\ UNCHANGED <<fileVars, archived_tasks, writers, clock>>

\* requestPlanning while fewer than MaxRequestId requests were planned.
sql_requestPlanning(taskDefs) == sql_requestPlanningUpTo(taskDefs, MaxRequestId)

\* Whether a dependency of task is missing from the table or not done.
hasUnmetDependencies(tk, task) ==
  \E depId \in task.dependsOn : depId \notin DOMAIN tk \/ tk[depId].status # "done"

\* The loop of getNextTask runs over the rows ORDER BY createdAt ASC and
\* returns the first pending task without unmet dependencies; SQL leaves
\* the order of rows with equal createdAt open, so each of them can be first.
sql_getNextTask(r) ==
  IF r \notin DOMAIN requests THEN Fail("sql_getNextTask", r, 0, "NotFound")
  ELSE IF requests[r].completed THEN NoChange("sql_getNextTask", r, 0, "request_completed")
  ELSE LET ready == {t \in findTasksByRequestId(tasks, r) :
                       /\ tasks[t].status = "pending"
                       /\ ~ hasUnmetDependencies(tasks, rowToTask(tasks, t))}
           first == {t \in ready : \A u \in ready : tasks[t].createdAt <= tasks[u].createdAt}
       IN IF ready = {} THEN NoChange("sql_getNextTask", r, 0, "no_actionable_tasks")
          ELSE \E t \in first : NoChange("sql_getNextTask", r, t, "next_task")

\* What getNextTask can answer on the tables rq and tk: the status and the
\* task of each answer.
getNextTaskAnswers(rq, tk, r) ==
  IF r \notin DOMAIN rq THEN {<<"NotFound", 0>>}
  ELSE IF rq[r].completed THEN {<<"request_completed", 0>>}
  ELSE LET ready == {t \in findTasksByRequestId(tk, r) :
                       /\ tk[t].status = "pending"
                       /\ ~ hasUnmetDependencies(tk, rowToTask(tk, t))}
           first == {t \in ready : \A u \in ready : tk[t].createdAt <= tk[u].createdAt}
       IN IF ready = {} THEN {<<"no_actionable_tasks", 0>>}
          ELSE {<<"next_task", t>> : t \in first}

sql_addTasksToRequest(r, taskDefs) ==
  IF r \notin DOMAIN requests THEN Fail("sql_addTasksToRequest", r, 0, "NotFound")
  ELSE LET n == Len(taskDefs)
           ids == (metadata.lastTaskId + 1)..(metadata.lastTaskId + n)
       IN /\ metadata.lastTaskId + n <= MaxTaskId
          /\ Cardinality(findTasksByRequestId(tasks, r)) + n <= MaxLiveTasks
          /\ tasks' = [k \in DOMAIN tasks \cup ids |->
                         IF k \in ids
                         THEN taskToRow(r, 0, taskDefs[k - metadata.lastTaskId].priority,
                                        taskDefs[k - metadata.lastTaskId].dependsOn, clock)
                         ELSE tasks[k]]
          /\ metadata' = [metadata EXCEPT !.lastTaskId = @ + n]
          /\ result' = Returned("sql_addTasksToRequest", r, 0, "tasks_added")
          /\ UNCHANGED <<fileVars, requests, archived_tasks, writers, clock>>

\* TaskRepository.addDependency and removeDependency: the table after the
\* UPDATE, or the table as it was when the statement is not run.
repo_addDependency(tk, taskId, dependencyId, now) ==
  IF taskId \in DOMAIN tk /\ dependencyId \notin tk[taskId].dependsOn
  THEN [tk EXCEPT ![taskId].dependsOn = @ \cup {dependencyId}, ![taskId].updatedAt = now]
  ELSE tk

repo_removeDependency(tk, taskId, dependencyId, now) ==
  IF taskId \in DOMAIN tk /\ dependencyId \in tk[taskId].dependsOn
  THEN [tk EXCEPT ![taskId].dependsOn = @ \ {dependencyId}, ![taskId].updatedAt = now]
  ELSE tk

sql_addDependency(r, t, dependsOnTaskId) ==
  IF ~ Found(r, t) \/ ~ Found(r, dependsOnTaskId)
  THEN Fail("sql_addDependency", r, t, "NotFound")
  ELSE LET tk == repo_addDependency(tasks, t, dependsOnTaskId, clock) IN
       IF tk = tasks THEN NoChange("sql_addDependency", r, t, "dependency_exists")
       ELSE Stored("sql_addDependency", r, t, "dependency_added", [Db EXCEPT !.tasks = tk])

sql_removeDependency(r, t, dependsOnTaskId) ==
  IF ~ Found(r, t) THEN Fail("sql_removeDependency", r, t, "NotFound")
  ELSE LET tk == repo_removeDependency(tasks, t, dependsOnTaskId, clock) IN
       IF tk = tasks THEN NoChange("sql_removeDependency", r, t, "dependency_not_found")
       ELSE Stored("sql_removeDependency", r, t, "dependency_removed", [Db EXCEPT !.tasks = tk])

sql_markTaskDone(r, t) ==
  IF ~ Found(r, t) THEN Fail("sql_markTaskDone", r, t, "NotFound")
  ELSE LET task == rowToTask(tasks, t) IN
       IF task.status = "done" THEN NoChange("sql_markTaskDone", r, t, "already_done")
       ELSE IF task.status = "failed" THEN Fail("sql_markTaskDone", r, t, "InvalidOperation")
       ELSE LET db1 == [Db EXCEPT !.tasks = updateTaskStatus(@, t, "done", clock)]
                db2 == sql_handleParentCompletion(db1, r, task, clock)
                remainingTasks == findTasksByRequestId(db2.tasks, r)
                allTasksTerminal == \A k \in remainingTasks : IsTerminal(db2.tasks[k].status)
            IN Stored("sql_markTaskDone", r, t, "done",
                      IF allTasksTerminal
                      THEN [db2 EXCEPT !.requests[r].completed = TRUE]
                      ELSE db2)

\* The tables after each statement that markTaskDone commits, in the order
\* the call runs them: the status of the task, the status of each ancestor
\* it auto-completes, the archival of the tree (one transaction of
\* TaskRepository.archiveTaskTree) and the writes of the completed flag.
ArchiveWrites(db, requestId, task, now) ==
  IF ~ sql_isTaskTreeFullyTerminal(db.tasks, task) THEN << >>
  ELSE LET done == repo_archiveTaskTree(db, sql_collectTaskWithDescendants(db.tasks, task),
                                        requestId, 1, now, 0)
           left == findTasksByRequestId(done.db.tasks, requestId)
       IN <<done.db>> \o
          (IF done.archivedCount > 0 /\ left = {}
           THEN <<[done.db EXCEPT !.requests[requestId].completed = TRUE]>>
           ELSE << >>)

RECURSIVE ParentCompletionWrites(_, _, _, _)
ParentCompletionWrites(db, requestId, completedTask, now) ==
  IF completedTask.parentId = 0 THEN ArchiveWrites(db, requestId, completedTask, now)
  ELSE IF completedTask.parentId \notin DOMAIN db.tasks THEN << >>
  ELSE LET parent == rowToTask(db.tasks, completedTask.parentId)
           allSiblingsDone ==
             \A siblingId \in parent.subtaskIds :
                siblingId \in DOMAIN db.tasks /\ db.tasks[siblingId].status = "done"
           db1 == [db EXCEPT !.tasks = updateTaskStatus(@, parent.id, "done", now)]
       IN IF allSiblingsDone
          THEN <<db1>> \o ParentCompletionWrites(db1, requestId, parent, now)
          ELSE << >>

markTaskDoneWrites(r, t) ==
  LET task == rowToTask(tasks, t)
      db1 == [Db EXCEPT !.tasks = updateTaskStatus(@, t, "done", clock)]
      upTo == <<db1>> \o ParentCompletionWrites(db1, r, task, clock)
      db2 == upTo[Len(upTo)]
      remainingTasks == findTasksByRequestId(db2.tasks, r)
  IN upTo \o (IF \A k \in remainingTasks : IsTerminal(db2.tasks[k].status)
              THEN <<[db2 EXCEPT !.requests[r].completed = TRUE]>>
              ELSE << >>)

\* markTaskDone when the statement of its k-th write throws (the disk is
\* full, the database is locked): the call throws and the tables are as the
\* statements before it left them.
sql_markTaskDoneInterrupted(r, t, k) ==
  /\ Found(r, t)
  /\ tasks[t].status \notin {"done", "failed"}
  /\ k \in 1..Len(markTaskDoneWrites(r, t))
  /\ LET db == IF k = 1 THEN Db ELSE markTaskDoneWrites(r, t)[k - 1] IN
     /\ requests' = db.requests
     /\ tasks' = db.tasks
     /\ archived_tasks' = db.archived_tasks
  /\ result' = Returned("sql_markTaskDone", r, 0, "SqliteError")
  /\ UNCHANGED <<fileVars, metadata, writers, clock>>

sql_markTaskFailed(r, t) ==
  IF ~ Found(r, t) THEN Fail("sql_markTaskFailed", r, t, "NotFound")
  ELSE LET task == rowToTask(tasks, t) IN
       IF task.status = "done" THEN Fail("sql_markTaskFailed", r, t, "InvalidOperation")
       ELSE IF task.status = "failed" THEN NoChange("sql_markTaskFailed", r, t, "already_failed")
       ELSE Stored("sql_markTaskFailed", r, t, "failed",
                   [Db EXCEPT !.tasks = updateTaskFailure(@, t, clock)])

sql_addSubtask(r, parentTaskId) ==
  IF ~ Found(r, parentTaskId) THEN Fail("sql_addSubtask", r, parentTaskId, "NotFound")
  ELSE LET subtaskId == metadata.lastTaskId + 1 IN
       /\ metadata.lastTaskId < MaxTaskId
       /\ Cardinality(findTasksByRequestId(tasks, r)) < MaxLiveTasks
       /\ tasks' = repo_addSubtask(Push(tasks, subtaskId,
                                        taskToRow(r, parentTaskId, "", {}, clock)),
                                   parentTaskId, subtaskId, clock)
       /\ metadata' = [metadata EXCEPT !.lastTaskId = subtaskId]
       /\ result' = Returned("sql_addSubtask", r, parentTaskId, "subtask_added")
       /\ UNCHANGED <<fileVars, requests, archived_tasks, writers, clock>>

\* The ids are deleted one by one, in the order they were collected.
RECURSIVE DeleteAll(_, _, _)
DeleteAll(tk, taskIds, i) ==
  IF i > Len(taskIds) THEN tk ELSE DeleteAll(repo_deleteTask(tk, taskIds[i]), taskIds, i + 1)

sql_deleteTask(r, t) ==
  IF ~ Found(r, t) THEN Fail("sql_deleteTask", r, t, "NotFound")
  ELSE LET task == rowToTask(tasks, t)
           taskIds == sql_collectTaskWithDescendants(tasks, task)
           tk1 == IF task.parentId # 0
                  THEN repo_removeSubtask(tasks, task.parentId, t, clock)
                  ELSE tasks
       IN Stored("sql_deleteTask", r, t, "deleted",
                 [Db EXCEPT !.tasks = DeleteAll(tk1, taskIds, 1)])

\* parentTaskId = 0: the call names no parent.
sql_removeSubtask(r, subtaskId, parentTaskId) ==
  IF ~ Found(r, subtaskId) THEN Fail("sql_removeSubtask", r, subtaskId, "NotFound")
  ELSE LET subtask == rowToTask(tasks, subtaskId)
           actualParentId == IF parentTaskId # 0 THEN parentTaskId ELSE subtask.parentId
       IN IF actualParentId = 0
          THEN Fail("sql_removeSubtask", r, subtaskId, "InvalidOperation")
          ELSE Stored("sql_removeSubtask", r, subtaskId, "subtask_removed",
                      [Db EXCEPT !.tasks =
                         DeleteAll(repo_removeSubtask(tasks, actualParentId, subtaskId, clock),
                                   sql_collectTaskWithDescendants(tasks, subtask), 1)])

sql_archiveTaskTree(r, t) ==
  IF ~ Found(r, t) THEN Fail("sql_archiveTaskTree", r, t, "NotFound")
  ELSE LET task == rowToTask(tasks, t) IN
       IF ~ sql_areAllDescendantsStatus(tasks, task, "done")
       THEN Fail("sql_archiveTaskTree", r, t, "InvalidOperation")
       ELSE Stored("sql_archiveTaskTree", r, t, "archived",
                   ArchiveAndClose(Db, r, sql_collectTaskWithDescendants(tasks, task),
                                   clock, FALSE))

\* The subtasks are created one by one under taskIdToSplit, whose row keeps
\* its status; the request's completed flag is not written.
sql_splitTask(r, taskIdToSplit, newSubtaskDefinitions) ==
  IF ~ Found(r, taskIdToSplit) THEN Fail("sql_splitTask", r, taskIdToSplit, "NotFound")
  ELSE LET taskToSplit == rowToTask(tasks, taskIdToSplit)
           n == Len(newSubtaskDefinitions)
           ids == (metadata.lastTaskId + 1)..(metadata.lastTaskId + n)
       IN
       IF taskToSplit.status = "done"
       THEN Fail("sql_splitTask", r, taskIdToSplit, "InvalidOperation")
       ELSE /\ metadata.lastTaskId + n <= MaxTaskId
            /\ Cardinality(findTasksByRequestId(tasks, r)) + n <= MaxLiveTasks
            /\ tasks' = [k \in DOMAIN tasks \cup ids |->
                           IF k \in ids
                           THEN LET def == newSubtaskDefinitions[k - metadata.lastTaskId]
                                IN taskToRow(r, taskIdToSplit,
                                             IF def.priority # "" THEN def.priority
                                             ELSE taskToSplit.priority,
                                             def.dependsOn, clock)
                           ELSE IF k = taskIdToSplit
                           THEN [tasks[k] EXCEPT !.subtaskIds = @ \cup ids,
                                                 !.updatedAt = IF n > 0 THEN clock ELSE @]
                           ELSE tasks[k]]
            /\ metadata' = [metadata EXCEPT !.lastTaskId = @ + n]
            /\ result' = Returned("sql_splitTask", r, taskIdToSplit, "task_split")
            /\ UNCHANGED <<fileVars, requests, archived_tasks, writers, clock>>

\* The merged task is a new row with a new id; the rows of allTaskIds are
\* deleted (and ON DELETE CASCADE takes their subtasks) before it is
\* inserted.  The id is taken before the transaction starts.  When the row
\* of primaryTask.parentId went with the deleted rows the INSERT violates
\* the foreign key on parentId and the transaction rolls back.
sql_mergeTasks(r, primaryTaskId, taskIdsToMerge) ==
  IF ~ Found(r, primaryTaskId) \/ \E i \in DOMAIN taskIdsToMerge : ~ Found(r, taskIdsToMerge[i])
  THEN Fail("sql_mergeTasks", r, primaryTaskId, "NotFound")
  ELSE LET primaryTask == rowToTask(tasks, primaryTaskId)
           allTaskIds == <<primaryTaskId>> \o taskIdsToMerge
           mergedDependsOn ==
             (primaryTask.dependsOn
                \cup UNION {tasks[taskIdsToMerge[i]].dependsOn : i \in DOMAIN taskIdsToMerge})
             \ Range(allTaskIds)
           mergedTaskId == metadata.lastTaskId + 1
           deleted == DeleteAll(tasks, allTaskIds, 1)
           created == Push(deleted, mergedTaskId,
                           taskToRow(r, primaryTask.parentId, primaryTask.priority,
                                     mergedDependsOn, clock))
           foreignKeyFails ==
             primaryTask.parentId # 0 /\ primaryTask.parentId \notin DOMAIN deleted
       IN /\ metadata.lastTaskId < MaxTaskId
          /\ metadata' = [metadata EXCEPT !.lastTaskId = mergedTaskId]
          /\ IF foreignKeyFails
             THEN /\ result' = Returned("sql_mergeTasks", r, 0, "SqliteError")
                  /\ UNCHANGED tasks
             ELSE /\ result' = Returned("sql_mergeTasks", r, primaryTaskId, "tasks_merged")
                  /\ tasks' = IF primaryTask.parentId # 0
                              THEN repo_addSubtask(
                                     repo_removeSubtask(created, primaryTask.parentId,
                                                        primaryTaskId, clock),
                                     primaryTask.parentId, mergedTaskId, clock)
                              ELSE created
          /\ UNCHANGED <<fileVars, requests, archived_tasks, writers, clock>>

\* getNextTaskId and getNextRequestId of writer w run two statements on the
\* shared table, each committed on its own: getMetadata reads the counter
\* of key, setMetadata stores the value read plus one, which is the id the
\* writer obtains.  Another writer's statements can run in between.
getMetadata(w, key) ==
  /\ writers[w].pc = "idle"
  /\ metadata[key] < (IF key = "lastTaskId" THEN MaxTaskId ELSE MaxRequests)
  /\ writers' = [writers EXCEPT ![w].pc = "read", ![w].key = key,
                                ![w].currentId = metadata[key]]
  /\ UNCHANGED <<fileVars, requests, tasks, archived_tasks, metadata, clock, result>>

setMetadata(w) ==
  /\ writers[w].pc = "read"
  /\ LET nextId == writers[w].currentId + 1 IN
     /\ metadata' = [metadata EXCEPT ![writers[w].key] = nextId]
     /\ writers' = [writers EXCEPT ![w].pc = "idle",
                                   ![w].ids = @ \cup {<<writers[w].key, nextId>>}]
  /\ UNCHANGED <<fileVars, requests, tasks, archived_tasks, clock, result>>

\* The clock of new Date() advances between calls.
Tick ==
  /\ clock < MaxClock
  /\ clock' = clock + 1
  /\ UNCHANGED <<fileVars, sqlVars, result>>

Init ==
  /\ requestsMap = << >>
  /\ requestCounter = 0
  /\ taskCounter = 0
  /\ completedTasksData = << >>
  /\ requests = << >>
  /\ tasks = << >>
  /\ archived_tasks = << >>
  /\ metadata = [lastRequestId |-> 0, lastTaskId |-> 0]
  /\ writers = [w \in Writers |-> [pc |-> "idle", key |-> "", currentId |-> 0, ids |-> {}]]
  /\ clock = 0
  /\ result = Returned("init", 0, 0, "ok")

\* The task definitions the calls of the model pass, without dependencies:
\* an explicit priority, or none (priority "").
PlainDefs(n) == [i \in 1..n |-> [priority |-> "medium", dependsOn |-> {}]]
InheritDefs(n) == [i \in 1..n |-> [priority |-> "", dependsOn |-> {}]]
NoOverrides == [title |-> << >>, priority |-> ""]

\* Task definitions with a priority each, without dependencies.
PriorityDefs(n) == [1..n -> [priority : TaskPriority, dependsOn : {{}}]]

\* Task definitions of default priority that depend on nothing, on the
\* first task planned or on an id that no plan creates.
DependsOnDefs(n) == [1..n -> [priority : {"medium"}, dependsOn : {{}, {1}, {MaxTaskId}}]]

\* Task definitions of default priority that depend on up to two ids, of
\* tasks of the plan or of none.
GraphDefs(n) ==
  [1..n -> [priority : {"medium"},
            dependsOn : {D \in SUBSET TaskIds : Cardinality(D) <= 2}]]

\* The lists of ids mergeTasks is called with: one id, or two ids in
\* ascending order.
MergeLists == {<<a>> : a \in TaskIds} \cup {ab \in TaskIds \X TaskIds : ab[1] < ab[2]}

(***************************************************************************)
(* Spec: the tree and lifecycle operations of the file-based server.       *)
(***************************************************************************)
Next ==
  \/ \E n \in 1..2 : requestPlanning(PlainDefs(n))
  \/ \E r \in RequestIds : addTasksToRequest(r, PlainDefs(1))
  \/ \E r \in RequestIds : getNextTask(r)
  \/ \E r \in RequestIds, t \in TaskIds : markTaskDone(r, t)
  \/ \E r \in RequestIds, t \in TaskIds : markTaskFailed(r, t, "")
  \/ \E r \in RequestIds, t \in TaskIds : deleteTask(r, t)
  \/ \E r \in RequestIds, t \in TaskIds, p \in {0} \cup TaskIds : removeSubtask(r, t, p)
  \/ \E r \in RequestIds, t \in TaskIds : addSubtask(r, t, InheritDefs(1)[1])
  \/ \E r \in RequestIds, t \in TaskIds : archiveTaskTree(r, t)
  \/ \E r \in RequestIds, t \in TaskIds : splitTask(r, t, InheritDefs(1))

Spec == Init /\ [][Next]_vars

(***************************************************************************)
(* SpecMerge: mergeTasks among the operations that build and finish trees. *)
(***************************************************************************)
NextMerge ==
  \/ \E n \in 1..2 : requestPlanning(PlainDefs(n))
  \/ \E r \in RequestIds, t \in TaskIds : addSubtask(r, t, InheritDefs(1)[1])
  \/ \E r \in RequestIds, t \in TaskIds : deleteTask(r, t)
  \/ \E r \in RequestIds, t \in TaskIds : markTaskDone(r, t)
  \/ \E r \in RequestIds, t \in TaskIds : markTaskFailed(r, t, "")
  \/ \E r \in RequestIds, t \in TaskIds, ids \in MergeLists :
        mergeTasks(r, t, ids, NoOverrides)

SpecMerge == Init /\ [][NextMerge]_vars

(***************************************************************************)
(* SpecSql: the SQLite-backed server.                                      *)
(***************************************************************************)
NextSql ==
  \/ \E n \in 1..2 : sql_requestPlanning(PlainDefs(n))
  \/ \E r \in RequestIds, t \in TaskIds : sql_addSubtask(r, t)
  \/ \E r \in RequestIds, t \in TaskIds : sql_markTaskDone(r, t)
  \/ \E r \in RequestIds, t \in TaskIds : sql_markTaskFailed(r, t)
  \/ \E r \in RequestIds, t \in TaskIds : sql_deleteTask(r, t)
  \/ \E r \in RequestIds, t \in TaskIds : sql_archiveTaskTree(r, t)
  \/ Tick

SpecSql == Init /\ [][NextSql]_vars

(***************************************************************************)
(* SpecDeps: the dependency graph of the file-based server.                *)
(***************************************************************************)
NextDeps ==
  \/ \E n \in 1..3 : requestPlanning(PlainDefs(n))
  \/ \E r \in RequestIds, t \in TaskIds, d \in TaskIds : addDependency(r, t, d)
  \/ \E r \in RequestIds, t \in TaskIds, d \in TaskIds : removeDependency(r, t, d)
  \/ \E r \in RequestIds, t \in TaskIds : markTaskDone(r, t)
  \/ \E r \in RequestIds, t \in TaskIds, ids \in MergeLists :
        mergeTasks(r, t, ids, NoOverrides)

SpecDeps == Init /\ [][NextDeps]_vars

\* The updates updateTask is called with: a status, a title, a priority, a
\* retry strategy, or a retry strategy together with a status.
NoUpdate == [title |-> << >>, priority |-> "", status |-> "", suggestedRetryStrategy |-> ""]
UpdateInputs ==
  {[NoUpdate EXCEPT !.status = st] : st \in SettableTaskStatusEnum} \cup
  {[NoUpdate EXCEPT !.title = <<"U">>],
   [NoUpdate EXCEPT !.priority = "high"],
   [NoUpdate EXCEPT !.suggestedRetryStrategy = "retry"],
   [NoUpdate EXCEPT !.status = "pending", !.suggestedRetryStrategy = "retry"]}

(***************************************************************************)
(* SpecUpdate: updateTask among the lifecycle operations of the file-based *)
(* server.                                                                 *)
(***************************************************************************)
NextUpdate ==
  \/ \E n \in 1..2 : requestPlanning(PlainDefs(n))
  \/ \E r \in RequestIds : getNextTask(r)
  \/ \E r \in RequestIds, t \in TaskIds : markTaskDone(r, t)
  \/ \E r \in RequestIds, t \in TaskIds : markTaskFailed(r, t, "")
  \/ \E r \in RequestIds, t \in TaskIds, updates \in UpdateInputs : updateTask(r, t, updates)
  \/ \E r \in RequestIds, t \in TaskIds, d \in TaskIds : addDependency(r, t, d)

SpecUpdate == Init /\ [][NextUpdate]_vars

(***************************************************************************)
(* SpecBoth: markTaskDone and markTaskFailed of the two servers, with a    *)
(* clock that advances.                                                    *)
(***************************************************************************)
NextBoth ==
  \/ \E n \in 1..2 : requestPlanning(PlainDefs(n))
  \/ \E r \in RequestIds, t \in TaskIds : markTaskDone(r, t)
  \/ \E r \in RequestIds, t \in TaskIds : markTaskFailed(r, t, "")
  \/ \E r \in RequestIds, t \in TaskIds : archiveTaskTree(r, t)
  \/ \E n \in 1..2 : sql_requestPlanning(PlainDefs(n))
  \/ \E r \in RequestIds, t \in TaskIds : sql_markTaskDone(r, t)
  \/ \E r \in RequestIds, t \in TaskIds : sql_markTaskFailed(r, t)
  \/ \E r \in RequestIds, t \in TaskIds : sql_archiveTaskTree(r, t)
  \/ Tick

SpecBoth == Init /\ [][NextBoth]_vars

(***************************************************************************)
(* SpecSplit: splitTask into one or two subtasks, among the calls that     *)
(* report on tasks, with a clock that advances.                            *)
(***************************************************************************)
NextSplit ==
  \/ \E n \in 1..2 : requestPlanning(PlainDefs(n))
  \/ \E r \in RequestIds, t \in TaskIds, n \in 1..2 : splitTask(r, t, InheritDefs(n))
  \/ \E r \in RequestIds : getNextTask(r)
  \/ \E r \in RequestIds, t \in TaskIds : markTaskDone(r, t)
  \/ \E r \in RequestIds, t \in TaskIds : markTaskFailed(r, t, "")
  \/ Tick

SpecSplit == Init /\ [][NextSplit]_vars

(***************************************************************************)
(* SpecMergeDeps: mergeTasks over task trees with dependencies; a task is  *)
(* made to depend on tasks created before it.                              *)
(***************************************************************************)
NextMergeDeps ==
  \/ \E n \in 1..2 : requestPlanning(PlainDefs(n))
  \/ \E r \in RequestIds, t \in TaskIds : addSubtask(r, t, InheritDefs(1)[1])
  \/ \E r \in RequestIds, t \in TaskIds : \E d \in 1..(t - 1) : addDependency(r, t, d)
  \/ \E r \in RequestIds, t \in TaskIds, ids \in MergeLists :
        mergeTasks(r, t, ids, NoOverrides)

SpecMergeDeps == Init /\ [][NextMergeDeps]_vars

(***************************************************************************)
(* SpecNextBoth: getNextTask of the two servers over tasks planned with    *)
(* dependencies.                                                           *)
(***************************************************************************)
NextNextBoth ==
  \/ \E n \in 1..2 : \E taskDefs \in DependsOnDefs(n) : requestPlanning(taskDefs)
  \/ \E r \in RequestIds : getNextTask(r)
  \/ \E r \in RequestIds, t \in TaskIds : markTaskDone(r, t)
  \/ \E n \in 1..2 : \E taskDefs \in DependsOnDefs(n) : sql_requestPlanning(taskDefs)
  \/ \E r \in RequestIds : sql_getNextTask(r)
  \/ \E r \in RequestIds, t \in TaskIds : sql_markTaskDone(r, t)

SpecNextBoth == Init /\ [][NextNextBoth]_vars

(***************************************************************************)
(* SpecSqlNext: getNextTask of the SQLite-backed server over tasks of      *)
(* different priorities created at different times.                        *)
(***************************************************************************)
NextSqlNext ==
  \/ \E n \in 1..2 : \E taskDefs \in PriorityDefs(n) : sql_requestPlanning(taskDefs)
  \/ \E r \in RequestIds : \E taskDefs \in PriorityDefs(1) : sql_addTasksToRequest(r, taskDefs)
  \/ \E r \in RequestIds : sql_getNextTask(r)
  \/ \E r \in RequestIds, t \in TaskIds : sql_markTaskDone(r, t)
  \/ Tick

SpecSqlNext == Init /\ [][NextSqlNext]_vars

\* The updates that only set a status.
StatusUpdates == {[NoUpdate EXCEPT !.status = st] : st \in {"active", "requires_clarification"}}

(***************************************************************************)
(* SpecNext: getNextTask of the file-based server over task trees.         *)
(***************************************************************************)
NextNext ==
  \/ requestPlanning(PlainDefs(1))
  \/ \E r \in RequestIds, t \in TaskIds : addSubtask(r, t, InheritDefs(1)[1])
  \/ \E r \in RequestIds, t \in TaskIds : splitTask(r, t, InheritDefs(1))
  \/ \E r \in RequestIds, t \in TaskIds, a \in TaskIds :
        mergeTasks(r, t, <<a, MaxTaskId>>, NoOverrides)
  \/ \E r \in RequestIds : getNextTask(r)
  \/ \E r \in RequestIds, t \in TaskIds, updates \in StatusUpdates : updateTask(r, t, updates)
  \/ \E r \in RequestIds, t \in TaskIds : markTaskDone(r, t)

SpecNext == Init /\ [][NextNext]_vars

(***************************************************************************)
(* SpecOrder: getNextTask of the file-based server over tasks of different *)
(* priorities and statuses.                                                *)
(***************************************************************************)
NextOrder ==
  \/ \E n \in 1..MaxLiveTasks : \E taskDefs \in PriorityDefs(n) : requestPlanning(taskDefs)
  \/ \E r \in RequestIds : getNextTask(r)
  \/ \E r \in RequestIds, t \in TaskIds, updates \in StatusUpdates : updateTask(r, t, updates)
  \/ \E r \in RequestIds, t \in TaskIds : markTaskDone(r, t)

SpecOrder == Init /\ [][NextOrder]_vars

(***************************************************************************)
(* SpecSqlDeps: the dependency operations of the SQLite-backed server.     *)
(***************************************************************************)
NextSqlDeps ==
  \/ \E n \in 1..2 : sql_requestPlanning(PlainDefs(n))
  \/ \E r \in RequestIds, t \in TaskIds, d \in TaskIds : sql_addDependency(r, t, d)
  \/ \E r \in RequestIds, t \in TaskIds, d \in TaskIds : sql_removeDependency(r, t, d)
  \/ \E r \in RequestIds : sql_getNextTask(r)
  \/ \E r \in RequestIds, t \in TaskIds : sql_markTaskDone(r, t)
  \/ \E r \in RequestIds, t \in TaskIds : sql_archiveTaskTree(r, t)

SpecSqlDeps == Init /\ [][NextSqlDeps]_vars

(***************************************************************************)
(* SpecDelete: deleteTask of the file-based server over trees with         *)
(* dependencies.                                                           *)
(***************************************************************************)
NextDelete ==
  \/ \E n \in 1..2 : requestPlanning(PlainDefs(n))
  \/ \E r \in RequestIds, t \in TaskIds : addSubtask(r, t, InheritDefs(1)[1])
  \/ \E r \in RequestIds, t \in TaskIds, d \in TaskIds : addDependency(r, t, d)
  \/ \E r \in RequestIds, t \in TaskIds, a \in TaskIds :
        mergeTasks(r, t, <<a, MaxTaskId>>, NoOverrides)
  \/ \E r \in RequestIds, t \in TaskIds : deleteTask(r, t)

SpecDelete == Init /\ [][NextDelete]_vars

(***************************************************************************)
(* SpecValidate: validateDependencies of the file-based server over the    *)
(* dependency graphs a plan and addDependency can build.                   *)
(***************************************************************************)
NextValidate ==
  \/ \E n \in 1..MaxLiveTasks : \E taskDefs \in GraphDefs(n) : requestPlanning(taskDefs)
  \/ \E r \in RequestIds, t \in TaskIds, d \in TaskIds : addDependency(r, t, d)
  \/ \E r \in RequestIds : validateDependencies(r)

SpecValidate == Init /\ [][NextValidate]_vars

(***************************************************************************)
(* SpecReopen: splitTask and mergeTasks of the file-based server on        *)
(* requests whose tasks were finished and set back.                        *)
(***************************************************************************)
NextReopen ==
  \/ \E n \in 1..2 : requestPlanning(PlainDefs(n))
  \/ \E r \in RequestIds, t \in TaskIds : markTaskDone(r, t)
  \/ \E r \in RequestIds, t \in TaskIds : markTaskFailed(r, t, "")
  \/ \E r \in RequestIds, t \in TaskIds :
        updateTask(r, t, [NoUpdate EXCEPT !.status = "pending"])
  \/ \E r \in RequestIds, t \in TaskIds : splitTask(r, t, InheritDefs(1))
  \/ \E r \in RequestIds, t \in TaskIds, a \in TaskIds :
        mergeTasks(r, t, <<a>>, NoOverrides)

SpecReopen == Init /\ [][NextReopen]_vars

(***************************************************************************)
(* SpecSqlMerge: mergeTasks of the SQLite-backed server on trees with      *)
(* dependencies.                                                           *)
(***************************************************************************)
NextSqlMerge ==
  \/ \E n \in 1..2 : sql_requestPlanning(PlainDefs(n))
  \/ \E r \in RequestIds, t \in TaskIds : sql_addSubtask(r, t)
  \/ \E r \in RequestIds, t \in TaskIds : sql_addDependency(r, t, 1)
  \/ \E r \in RequestIds, t \in TaskIds, ids \in MergeLists : sql_mergeTasks(r, t, ids)

SpecSqlMerge == Init /\ [][NextSqlMerge]_vars

(***************************************************************************)
(* SpecIds: the operations that create tasks, on up to MaxRequests         *)
(* requests, with deleteTask and mergeTasks (file) and mergeTasks and the  *)
(* auto-archive of markTaskDone (SQLite) to remove tasks.  A process runs  *)
(* one of the two servers: the file-based server is called while the       *)
(* tables are empty, the SQLite-backed server while the file is.           *)
(***************************************************************************)
NextIdsFile ==
  \/ requestPlanningUpTo(PlainDefs(1), MaxRequests)
  \/ \E r \in 1..MaxRequests : addTasksToRequest(r, PlainDefs(1))
  \/ \E r \in 1..MaxRequests, t \in TaskIds : addSubtask(r, t, InheritDefs(1)[1])
  \/ \E r \in 1..MaxRequests, t \in TaskIds : splitTask(r, t, InheritDefs(1))
  \/ \E r \in 1..MaxRequests, t \in TaskIds, a \in TaskIds :
        mergeTasks(r, t, <<a>>, NoOverrides)
  \/ \E r \in 1..MaxRequests, t \in TaskIds : deleteTask(r, t)

NextIdsSql ==
  \/ sql_requestPlanningUpTo(PlainDefs(1), MaxRequests)
  \/ \E r \in 1..MaxRequests : sql_addTasksToRequest(r, PlainDefs(1))
  \/ \E r \in 1..MaxRequests, t \in TaskIds : sql_addSubtask(r, t)
  \/ \E r \in 1..MaxRequests, t \in TaskIds : sql_splitTask(r, t, InheritDefs(1))
  \/ \E r \in 1..MaxRequests, t \in TaskIds, a \in TaskIds : sql_mergeTasks(r, t, <<a>>)
  \/ \E r \in 1..MaxRequests, t \in TaskIds : sql_markTaskDone(r, t)

NextIds ==
  \/ metadata.lastRequestId = 0 /\ NextIdsFile
  \/ requestCounter = 0 /\ NextIdsSql

SpecIds == Init /\ [][NextIds]_vars

(***************************************************************************)
(* SpecWriters: writers that share one database file and take ids.         *)
(***************************************************************************)
NextWriters ==
  \/ \E w \in Writers, key \in {"lastTaskId", "lastRequestId"} : getMetadata(w, key)
  \/ \E w \in Writers : setMetadata(w)

SpecWriters == Init /\ [][NextWriters]_vars

(***************************************************************************)
(* SpecSqlFault: markTaskDone of the SQLite-backed server when a statement *)
(* of it can fail.                                                         *)
(***************************************************************************)
MaxWrites == 6       \* statements of one markTaskDone that can be the failing one

NextSqlFault ==
  \/ \E n \in 1..2 : sql_requestPlanning(PlainDefs(n))
  \/ \E r \in RequestIds, t \in TaskIds : sql_addSubtask(r, t)
  \/ \E r \in RequestIds, t \in TaskIds : sql_markTaskDone(r, t)
  \/ \E r \in RequestIds, t \in TaskIds : sql_markTaskFailed(r, t)
  \/ \E r \in RequestIds, t \in TaskIds, k \in 1..MaxWrites :
        sql_markTaskDoneInterrupted(r, t, k)

SpecSqlFault == Init /\ [][NextSqlFault]_vars

(***************************************************************************)
(* SpecForest: the operations of the file-based server that change the     *)
(* parent relation.                                                        *)
(***************************************************************************)
NextForest ==
  \/ \E n \in 1..2 : requestPlanning(PlainDefs(n))
  \/ \E r \in RequestIds, t \in TaskIds : addSubtask(r, t, InheritDefs(1)[1])
  \/ \E r \in RequestIds, t \in TaskIds : splitTask(r, t, InheritDefs(1))
  \/ \E r \in RequestIds, t \in TaskIds, a \in TaskIds :
        mergeTasks(r, t, <<a>>, NoOverrides)
  \/ \E r \in RequestIds, t \in TaskIds : deleteTask(r, t)

SpecForest == Init /\ [][NextForest]_vars

(***************************************************************************)
(* SpecAgent: an agent that asks the file-based server for the next task   *)
(* and marks the task it was given done, on a request whose tasks were     *)
(* planned with dependencies among them and given subtasks.  The agent     *)
(* goes on calling; the calls that build the request need not.             *)
(***************************************************************************)
\* Task definitions whose dependencies are tasks of the plan with a smaller
\* index: the ids of a first plan.
OrderedDefs(n) ==
  {defs \in [1..n -> [priority : {"medium"}, dependsOn : SUBSET (1..n)]] :
     \A i \in 1..n : \A d \in defs[i].dependsOn : d < i}

\* The agent's next call: markTaskDone of the task getNextTask has just
\* returned, getNextTask otherwise.
AgentStep(r) ==
  IF result.op = "getNextTask" /\ result.status = "next_task" /\ result.requestId = r
  THEN markTaskDone(r, result.taskId)
  ELSE getNextTask(r)

NextAgent ==
  \/ \E n \in 1..MaxLiveTasks : \E defs \in OrderedDefs(n) : requestPlanning(defs)
  \/ \E r \in RequestIds, t \in TaskIds : addSubtask(r, t, InheritDefs(1)[1])
  \/ \E r \in RequestIds, t \in TaskIds, d \in TaskIds : addDependency(r, t, d)
  \/ \E r \in RequestIds : AgentStep(r)

\* The agent does make the call that marks the task it was given done,
\* however often other calls come in between.
AgentMarksDone ==
  /\ result.op = "getNextTask" /\ result.status = "next_task"
  /\ markTaskDone(result.requestId, result.taskId)

SpecAgent ==
  /\ Init /\ [][NextAgent]_vars
  /\ WF_vars(\E r \in RequestIds : AgentStep(r))
  /\ SF_vars(AgentMarksDone)

(***************************************************************************)
(* SpecLifecycle: the calls of the file-based server that hand out tasks,  *)
(* report on them and give them subtasks.                                  *)
(***************************************************************************)
NextLifecycle ==
  \/ \E n \in 1..2 : \E defs \in DependsOnDefs(n) : requestPlanning(defs)
  \/ \E r \in RequestIds : getNextTask(r)
  \/ \E r \in RequestIds, t \in TaskIds : markTaskDone(r, t)
  \/ \E r \in RequestIds, t \in TaskIds : markTaskFailed(r, t, "")
  \/ \E r \in RequestIds, t \in TaskIds : addSubtask(r, t, InheritDefs(1)[1])
  \/ \E r \in RequestIds, t \in TaskIds : splitTask(r, t, InheritDefs(1))

SpecLifecycle == Init /\ [][NextLifecycle]_vars

(***************************************************************************)
(* SpecSqlReopen: tasks added to requests of the SQLite-backed server      *)
(* whose tasks were reported done or failed.                               *)
(***************************************************************************)
NextSqlReopen ==
  \/ \E n \in 1..2 : sql_requestPlanning(PlainDefs(n))
  \/ \E r \in RequestIds : sql_addTasksToRequest(r, PlainDefs(1))
  \/ \E r \in RequestIds, t \in TaskIds : sql_addSubtask(r, t)
  \/ \E r \in RequestIds, t \in TaskIds : sql_splitTask(r, t, InheritDefs(1))
  \/ \E r \in RequestIds, t \in TaskIds : sql_markTaskDone(r, t)
  \/ \E r \in RequestIds, t \in TaskIds : sql_markTaskFailed(r, t)
  \/ \E r \in RequestIds : sql_getNextTask(r)

SpecSqlReopen == Init /\ [][NextSqlReopen]_vars

(***************************************************************************)
(* SpecSqlRequests: up to MaxRequests requests of the SQLite-backed        *)
(* server, whose tasks depend on nothing or on the first task planned.     *)
(***************************************************************************)
FirstTaskDefs(n) == [1..n -> [priority : {"medium"}, dependsOn : {{}, {1}}]]

NextSqlRequests ==
  \/ \E defs \in FirstTaskDefs(1) : sql_requestPlanningUpTo(defs, MaxRequests)
  \/ \E r \in 1..MaxRequests, t \in TaskIds : sql_addSubtask(r, t)
  \/ \E r \in 1..MaxRequests, t \in TaskIds : sql_markTaskDone(r, t)
  \/ \E r \in 1..MaxRequests, t \in TaskIds : sql_deleteTask(r, t)
  \/ \E r \in 1..MaxRequests, t \in TaskIds, p \in {0} \cup TaskIds :
        sql_removeSubtask(r, t, p)
  \/ \E r \in 1..MaxRequests : sql_getNextTask(r)

SpecSqlRequests == Init /\ [][NextSqlRequests]_vars

(***************************************************************************)
(* Vocabulary of the properties.                                           *)
(***************************************************************************)
\* The last call returned: it did not throw.
Succeeded == result.op # "init" /\ result.status \notin Errors

\* R is a root whose subtasks are exactly A and B, all three live rows of r,
\* and the only live rows of r.
SqlTree(r, R, A, B) ==
  /\ r \in DOMAIN requests
  /\ A # B /\ A # R /\ B # R
  /\ findTasksByRequestId(tasks, r) = {R, A, B}
  /\ tasks[R].parentId = 0 /\ tasks[R].subtaskIds = {A, B}
  /\ tasks[A].parentId = R /\ tasks[A].subtaskIds = {}
  /\ tasks[B].parentId = R /\ tasks[B].subtaskIds = {}

\* After the step the tree is archived with R done, no row of r is live and
\* r is completed.
SqlTreeArchived(r, R, A, B) ==
  /\ findTasksByRequestId(tasks', r) = {}
  /\ {R, A, B} \subseteq DOMAIN archived_tasks'
  /\ archived_tasks'[R].status = "done"
  /\ requests'[r].completed

\* C1: (SQLite) for a parent R whose subtasks are exactly {A, B}, all
\* non-terminal, markTaskDone(A) leaves R's status unchanged and archives
\* nothing; the following markTaskDone(B) sets R to done and archives
\* {R, A, B}, leaving the request without live tasks and completed.
C1_DoneCascadeArchivesTree ==
  [][\A r \in RequestIds, R \in TaskIds, A \in TaskIds, B \in TaskIds :
       (SqlTree(r, R, A, B) /\ ~ IsTerminal(tasks[R].status) /\ ~ IsTerminal(tasks[B].status))
       => /\ (~ IsTerminal(tasks[A].status) /\ sql_markTaskDone(r, A))
             => /\ R \in DOMAIN tasks' /\ tasks'[R].status = tasks[R].status
                /\ archived_tasks' = archived_tasks
          /\ (tasks[A].status = "done" /\ sql_markTaskDone(r, B))
             => SqlTreeArchived(r, R, A, B)]_vars

\* C2: (SQLite) for a parent R whose subtasks are exactly {A, B}, after
\* markTaskDone(A) and then markTaskFailed(B), R is auto-completed to done
\* and the tree {R, A, B} is archived as in the all-done case.
C2_FailedCascadeArchivesTree ==
  [][\A r \in RequestIds, R \in TaskIds, A \in TaskIds, B \in TaskIds :
       (/\ SqlTree(r, R, A, B)
        /\ ~ IsTerminal(tasks[R].status) /\ ~ IsTerminal(tasks[B].status)
        /\ tasks[A].status = "done"
        /\ sql_markTaskFailed(r, B))
       => SqlTreeArchived(r, R, A, B)]_vars

\* The ancestors of c that the cascade rule of C3 sets to done in the task
\* map T: the parent when it is pending, active or split and every id in its
\* subtaskIds names a live task that is done, failed or split; then upward.
RECURSIVE CascadeRule(_, _)
CascadeRule(T, c) ==
  LET p == T[c].parentId IN
  IF /\ p \in DOMAIN T
     /\ T[p].status \in {"pending", "active", "split"}
     /\ \A id \in T[p].subtaskIds : id \in DOMAIN T /\ T[id].status \in {"done", "failed", "split"}
  THEN {p} \cup CascadeRule([T EXCEPT ![p].status = "done"], p)
  ELSE {}

\* C3: (file) when markTaskDone or markTaskFailed makes t terminal, exactly
\* the ancestors the cascade rule names are set to done, every other task
\* keeps its status, and no ancestor is set to failed.
C3_CascadeRule ==
  [][\A r \in DOMAIN requestsMap, t \in TaskIds :
       LET T == requestsMap[r].tasks
           T2 == requestsMap'[r].tasks
       IN (/\ t \in DOMAIN T /\ ~ IsTerminal(T[t].status)
           /\ markTaskDone(r, t) \/ markTaskFailed(r, t, "")
           /\ IsTerminal(T2[t].status))
          => \A k \in DOMAIN T \ {t} :
               T2[k].status =
                 IF k \in CascadeRule([T EXCEPT ![t].status = T2[t].status], t)
                 THEN "done" ELSE T[k].status]_vars

\* C4: (file) after every successful operation a request's completed flag
\* is true iff every task of the request that is not split is done or failed.
C4_CompletedIffAllTerminal ==
  Succeeded =>
    \A r \in DOMAIN requestsMap :
       requestsMap[r].completed <=>
         \A k \in DOMAIN requestsMap[r].tasks :
            requestsMap[r].tasks[k].status # "split"
              => IsTerminal(requestsMap[r].tasks[k].status)

\* C5: (file) after every successful mutating operation, for all live tasks
\* t and p of a request, t.parentId = p.id iff p.subtaskIds contains t.id.
C5_ParentChildSymmetry ==
  (/\ Succeeded
   /\ result.op \in {"addSubtask", "splitTask", "mergeTasks", "deleteTask",
                     "removeSubtask", "archiveTaskTree"})
  => \A r \in DOMAIN requestsMap :
       LET T == requestsMap[r].tasks IN
       \A t \in DOMAIN T, p \in DOMAIN T : (T[t].parentId = p) <=> (t \in T[p].subtaskIds)

\* C7: (file) after a successful deleteTask, removeSubtask, archiveTaskTree
\* or mergeTasks no live task's dependsOn or subtaskIds contains the id of a
\* task the operation removed.
C7_NoDanglingAfterRemoval ==
  [][(/\ result'.op \in {"deleteTask", "removeSubtask", "archiveTaskTree", "mergeTasks"}
      /\ result'.status \notin Errors)
     => \A r \in DOMAIN requestsMap :
          LET T == requestsMap[r].tasks
              T2 == requestsMap'[r].tasks
              removed == DOMAIN T \ DOMAIN T2
          IN \A k \in DOMAIN T2 :
               T2[k].dependsOn \cap removed = {} /\ T2[k].subtaskIds \cap removed = {}]_vars

\* The ids reachable from the ids in frontier along dependsOn.
RECURSIVE DependsOnReach(_, _, _)
DependsOnReach(T, frontier, visited) ==
  IF frontier = {} THEN visited
  ELSE LET seen == visited \cup frontier
           next == UNION {T[x].dependsOn : x \in frontier \cap DOMAIN T}
       IN DependsOnReach(T, next \ seen, seen)

\* No task reaches itself along dependsOn.
Acyclic(T) == \A k \in DOMAIN T : k \notin DependsOnReach(T, T[k].dependsOn, {})

\* C6: (file) from an acyclic dependency graph, the graph is acyclic after
\* every successful addDependency and mergeTasks, and an addDependency that
\* would close a cycle of any length is rejected and leaves every dependsOn
\* unchanged.
C6_DependencyGraphStaysAcyclic ==
  [][\A r \in DOMAIN requestsMap :
       LET T == requestsMap[r].tasks
           T2 == requestsMap'[r].tasks
       IN Acyclic(T) =>
            /\ (result'.op \in {"addDependency", "mergeTasks"} /\ result'.status \notin Errors)
               => Acyclic(T2)
            /\ \A t \in DOMAIN T, d \in DOMAIN T :
                 (t \in DependsOnReach(T, {d}, {}) /\ addDependency(r, t, d))
                 => /\ result'.status \in Errors
                    /\ \A k \in DOMAIN T : k \in DOMAIN T2 /\ T2[k].dependsOn = T[k].dependsOn]_vars

\* The step is one of the calls C8 lists, aimed at task t of request r.
TargetedBy(r, t) ==
  \/ \E updates \in UpdateInputs : updateTask(r, t, updates)
  \/ \E d \in TaskIds : addDependency(r, t, d)
  \/ \E d \in TaskIds : removeDependency(r, t, d)
  \/ addSubtask(r, t, InheritDefs(1)[1])
  \/ splitTask(r, t, InheritDefs(1))
  \/ \E p \in TaskIds, ids \in MergeLists :
        (p = t \/ t \in Range(ids)) /\ mergeTasks(r, p, ids, NoOverrides)

\* C8: (file) once a task is done or failed, every updateTask,
\* addDependency, removeDependency, addSubtask, splitTask or mergeTasks that
\* targets it fails and leaves its status, title, priority, dependsOn and
\* subtaskIds unchanged.
C8_TerminalTasksAreFrozen ==
  [][\A r \in DOMAIN requestsMap, t \in TaskIds :
       LET T == requestsMap[r].tasks
           T2 == requestsMap'[r].tasks
       IN (/\ t \in DOMAIN T /\ IsTerminal(T[t].status)
           /\ result'.op \in {"updateTask", "addDependency", "removeDependency",
                              "addSubtask", "splitTask", "mergeTasks"}
           /\ TargetedBy(r, t))
          => /\ result'.status \in Errors
             /\ t \in DOMAIN T2
             /\ T2[t].status = T[t].status /\ T2[t].title = T[t].title
             /\ T2[t].priority = T[t].priority /\ T2[t].dependsOn = T[t].dependsOn
             /\ T2[t].subtaskIds = T[t].subtaskIds
             /\ T2[t].hasSubtaskIds = T[t].hasSubtaskIds]_vars

\* The status changes C9 allows a call to make directly.
AllowedTransitions ==
  {<<"pending", "active">>, <<"pending", "split">>, <<"active", "split">>,
   <<"active", "requires_clarification">>, <<"requires_clarification", "active">>,
   <<"active", "done">>, <<"active", "failed">>,
   <<"requires_clarification", "done">>, <<"requires_clarification", "failed">>}

\* C9: (file) every status is one of the six values, and every status change
\* is an allowed transition or the cascade's auto-completion of a pending,
\* active or split parent to done; no task leaves done or failed.
C9_OnlyAllowedTransitions ==
  [][\A r \in DOMAIN requestsMap :
       LET T == requestsMap[r].tasks
           T2 == requestsMap'[r].tasks
       IN \A k \in DOMAIN T \cap DOMAIN T2 :
            /\ T2[k].status \in TaskStatus
            /\ T[k].status # T2[k].status
               => \/ <<T[k].status, T2[k].status>> \in AllowedTransitions
                  \/ /\ result'.op \in {"markTaskDone", "markTaskFailed"}
                     /\ T[k].status \in {"pending", "active", "split"}
                     /\ T2[k].status = "done"
                     /\ \E c \in DOMAIN T2 \ {k} :
                          T2[c].parentId = k /\ IsTerminalOrSplit(T2[c].status)]_vars

\* C10: markTaskDone on a task that is already done returns already_done
\* and changes nothing in either server: no task field (updatedAt included),
\* no other task, no completed flag, no archive.
C10_MarkDoneTwiceChangesNothing ==
  [][\A r \in RequestIds, t \in TaskIds :
       /\ (/\ r \in DOMAIN requestsMap /\ t \in DOMAIN requestsMap[r].tasks
           /\ requestsMap[r].tasks[t].status = "done"
           /\ markTaskDone(r, t))
          => /\ result' = Returned("markTaskDone", r, t, "already_done")
             /\ UNCHANGED <<fileVars, sqlVars>>
       /\ (/\ Found(r, t) /\ tasks[t].status = "done"
           /\ sql_markTaskDone(r, t))
          => /\ result' = Returned("sql_markTaskDone", r, t, "already_done")
             /\ UNCHANGED <<fileVars, sqlVars>>]_vars

\* Both servers hold a done task, the clock has advanced since it was marked
\* done, and the last call marked one of them done again after that.
C10_Witness ==
  /\ result.status = "already_done"
  /\ \E r \in DOMAIN requestsMap : \E t \in DOMAIN requestsMap[r].tasks :
        /\ requestsMap[r].tasks[t].status = "done"
        /\ requestsMap[r].tasks[t].updatedAt < clock
  /\ \E t \in DOMAIN tasks : tasks[t].status = "done" /\ tasks[t].updatedAt < clock
  /\ \/ /\ result.op = "markTaskDone"
        /\ requestsMap[result.requestId].tasks[result.taskId].updatedAt < result.at
     \/ /\ result.op = "sql_markTaskDone"
        /\ tasks[result.taskId].updatedAt < result.at

\* The call op on task t of request r threw InvalidOperation and changed nothing.
Refused(op, r, t) ==
  /\ result' = Returned(op, r, 0, "InvalidOperation")
  /\ UNCHANGED <<fileVars, sqlVars>>

\* C11: in both servers markTaskFailed on a done task and markTaskDone on a
\* failed task fail with InvalidOperation and leave the whole state
\* unchanged, and markTaskFailed on a failed task returns already_failed
\* without changing state.
C11_OppositeTerminalReportIsRefused ==
  [][\A r \in RequestIds, t \in TaskIds :
       /\ (r \in DOMAIN requestsMap /\ t \in DOMAIN requestsMap[r].tasks)
          => LET st == requestsMap[r].tasks[t].status IN
             /\ (st = "done" /\ markTaskFailed(r, t, "")) => Refused("markTaskFailed", r, t)
             /\ (st = "failed" /\ markTaskDone(r, t)) => Refused("markTaskDone", r, t)
             /\ (st = "failed" /\ markTaskFailed(r, t, ""))
                => /\ result' = Returned("markTaskFailed", r, t, "already_failed")
                   /\ UNCHANGED <<fileVars, sqlVars>>
       /\ Found(r, t)
          => LET st == tasks[t].status IN
             /\ (st = "done" /\ sql_markTaskFailed(r, t)) => Refused("sql_markTaskFailed", r, t)
             /\ (st = "failed" /\ sql_markTaskDone(r, t)) => Refused("sql_markTaskDone", r, t)
             /\ (st = "failed" /\ sql_markTaskFailed(r, t))
                => /\ result' = Returned("sql_markTaskFailed", r, t, "already_failed")
                   /\ UNCHANGED <<fileVars, sqlVars>>]_vars

\* The last call was a markTaskFailed of the file-based server that threw
\* InvalidOperation while a task of the request had been done since before
\* the call, and each server holds a done and a failed task.
C11_Witness ==
  /\ result.op = "markTaskFailed" /\ result.status = "InvalidOperation"
  /\ \E t \in DOMAIN requestsMap[result.requestId].tasks :
        /\ requestsMap[result.requestId].tasks[t].status = "done"
        /\ requestsMap[result.requestId].tasks[t].updatedAt < result.at
  /\ \E t \in DOMAIN requestsMap[result.requestId].tasks :
        requestsMap[result.requestId].tasks[t].status = "failed"
  /\ \E t \in DOMAIN tasks : tasks[t].status = "done"
  /\ \E t \in DOMAIN tasks : tasks[t].status = "failed"

\* C12: (file) after a successful splitTask(X, [S1, S2]) X is split and S1,
\* S2 exist, pending, with parentId X and listed in X.subtaskIds; while X is
\* split, markTaskDone(X) and markTaskFailed(X) fail with InvalidOperation
\* and change nothing.
C12_SplitTaskIsAContainer ==
  [][\A r \in DOMAIN requestsMap, X \in TaskIds :
       LET T == requestsMap[r].tasks
           T2 == requestsMap'[r].tasks
           created == DOMAIN T2 \ DOMAIN T
       IN X \in DOMAIN T =>
          /\ (splitTask(r, X, InheritDefs(2)) /\ result'.status \notin Errors)
             => /\ T2[X].status = "split"
                /\ Cardinality(created) = 2
                /\ \A S \in created :
                      /\ T2[S].status = "pending" /\ T2[S].parentId = X
                      /\ T2[X].hasSubtaskIds /\ S \in T2[X].subtaskIds
          /\ (T[X].status = "split" /\ markTaskDone(r, X)) => Refused("markTaskDone", r, X)
          /\ (T[X].status = "split" /\ markTaskFailed(r, X, ""))
             => Refused("markTaskFailed", r, X)]_vars

\* A request holds only a split task X and its two pending subtasks, and the
\* last call, made after the clock advanced past the split, was a
\* markTaskDone that threw InvalidOperation: it was aimed at X.
C12_Witness ==
  /\ result.op = "markTaskDone" /\ result.status = "InvalidOperation"
  /\ \E X \in DOMAIN requestsMap[result.requestId].tasks :
        LET T == requestsMap[result.requestId].tasks IN
        /\ T[X].status = "split" /\ T[X].updatedAt < result.at
        /\ Cardinality(T[X].subtaskIds) = 2
        /\ DOMAIN T = {X} \cup T[X].subtaskIds
        /\ \A S \in T[X].subtaskIds : T[S].status = "pending" /\ T[S].parentId = X

\* C13: (file) after a successful mergeTasks(A, sources) no source exists in
\* the request any more, every remaining task that was a subtask of a source
\* has parentId A and is listed in A.subtaskIds, and every other task that
\* depended on a source depends on A and on no source.
C13_MergeAbsorbsSources ==
  [][\A r \in DOMAIN requestsMap, A \in TaskIds, ids \in MergeLists :
       LET T == requestsMap[r].tasks
           T2 == requestsMap'[r].tasks
           sources == Range(ids)
       IN (mergeTasks(r, A, ids, NoOverrides) /\ result'.status = "tasks_merged")
          => /\ sources \cap DOMAIN T2 = {}
             /\ \A k \in DOMAIN T2 :
                  (\E src \in sources : k \in T[src].subtaskIds \/ T[k].parentId = src)
                  => /\ T2[k].parentId = A
                     /\ T2[A].hasSubtaskIds /\ k \in T2[A].subtaskIds
             /\ \A k \in DOMAIN T2 \ {A} :
                  T[k].dependsOn \cap sources # {}
                  => A \in T2[k].dependsOn /\ T2[k].dependsOn \cap sources = {}]_vars

\* C14: (file) after a successful mergeTasks(A, sources), A.dependsOn is the
\* union of the dependsOn of A and of the sources, without the ids of A and
\* of the sources.
C14_MergedDependsOnIsTheUnion ==
  [][\A r \in DOMAIN requestsMap, A \in TaskIds, ids \in MergeLists :
       LET T == requestsMap[r].tasks
           T2 == requestsMap'[r].tasks
           sources == Range(ids)
       IN (mergeTasks(r, A, ids, NoOverrides) /\ result'.status = "tasks_merged")
          => T2[A].dependsOn =
               (T[A].dependsOn \cup UNION {T[src].dependsOn : src \in sources})
                 \ ({A} \cup sources)]_vars

\* C15: (file) a call that ends with NotFound or InvalidOperation leaves the
\* tasks of all requests, the completed flags, the archive and the id
\* counters as they were before the call.
C15_FailedCallsChangeNothing ==
  [][result'.status \in {"NotFound", "InvalidOperation"} => UNCHANGED fileVars]_vars

\* C16: in both servers a task getNextTask returns has no id in dependsOn
\* that names a task which is not done or a task which does not exist.
C16_NextTaskHasItsDependenciesDone ==
  [][/\ (result'.op = "getNextTask" /\ result'.status = "next_task")
        => \A depId \in requestsMap[result'.requestId].tasks[result'.taskId].dependsOn :
             \E r \in DOMAIN requestsMap :
                /\ depId \in DOMAIN requestsMap[r].tasks
                /\ requestsMap[r].tasks[depId].status = "done"
     /\ (result'.op = "sql_getNextTask" /\ result'.status = "next_task")
        => \A depId \in tasks[result'.taskId].dependsOn :
             depId \in DOMAIN tasks /\ tasks[depId].status = "done"]_vars

\* The SQLite-backed server has just returned a task that has a dependency,
\* and the file-based server has made a task with a dependency active.
C16_Witness ==
  /\ result.op = "sql_getNextTask" /\ result.status = "next_task"
  /\ tasks[result.taskId].dependsOn # {}
  /\ \E r \in DOMAIN requestsMap : \E t \in DOMAIN requestsMap[r].tasks :
        /\ requestsMap[r].tasks[t].status = "active"
        /\ requestsMap[r].tasks[t].dependsOn # {}

\* C17: (file) getNextTask never returns a done, failed or split task, never
\* a task whose parent is pending, and returns a task whose parent is active
\* or split only if that parent's subtaskIds contains the task.
C17_NextTaskIsOpenUnderAStartedParent ==
  [][(result'.op = "getNextTask" /\ result'.status = "next_task")
       => LET T == requestsMap[result'.requestId].tasks
              t == result'.taskId
              p == T[t].parentId
          IN /\ T[t].status \notin {"done", "failed", "split"}
             /\ (p # 0 /\ p \in DOMAIN T)
                => /\ T[p].status # "pending"
                   /\ T[p].status \in {"active", "split"}
                      => T[p].hasSubtaskIds /\ t \in T[p].subtaskIds]_vars

\* getNextTask has just returned a subtask of a split task while the request
\* holds an open task whose active parent does not list it.
C17_Witness ==
  /\ result.op = "getNextTask" /\ result.status = "next_task"
  /\ LET T == requestsMap[result.requestId].tasks
         p == T[result.taskId].parentId
     IN /\ p \in DOMAIN T /\ T[p].status = "split"
        /\ \E k \in DOMAIN T :
              /\ T[k].status \in {"pending", "active"}
              /\ T[k].parentId \in DOMAIN T
              /\ T[T[k].parentId].status = "active"
              /\ k \notin T[T[k].parentId].subtaskIds

\* C20: (file) a getNextTask that returns a pending task sets that task to
\* active and, if its direct parent is pending, that parent to active, and
\* changes no other task; a call that returns a task that is already active
\* or requires clarification, or that returns no task without completing
\* the request, changes no state at all.
C20_NextTaskActivatesOnlyWhatItReturns ==
  [][result'.op = "getNextTask"
       => IF result'.status = "next_task"
          THEN LET r == result'.requestId
                   t == result'.taskId
                   T == requestsMap[r].tasks
                   T2 == requestsMap'[r].tasks
                   p == T[t].parentId
                   touched == {t} \cup (IF p \in DOMAIN T /\ T[p].status = "pending"
                                        THEN {p} ELSE {})
               IN IF T[t].status = "pending"
                  THEN /\ DOMAIN T2 = DOMAIN T
                       /\ \A k \in touched :
                             T2[k] = [T[k] EXCEPT !.status = "active", !.updatedAt = T2[k].updatedAt]
                       /\ \A k \in DOMAIN T \ touched : T2[k] = T[k]
                       /\ requestsMap'[r].completed = requestsMap[r].completed
                       /\ UNCHANGED <<requestCounter, taskCounter, completedTasksData, sqlVars>>
                  ELSE /\ T[t].status \in {"active", "requires_clarification"}
                       /\ UNCHANGED <<fileVars, sqlVars>>
          ELSE result'.status # "all_tasks_terminal_request_completed"
               => UNCHANGED <<fileVars, sqlVars>>]_vars

\* getNextTask has just made a pending subtask active under a parent that
\* stayed as it was, next to a task that requires clarification.
C20_Witness ==
  /\ result.op = "getNextTask" /\ result.status = "next_task"
  /\ LET T == requestsMap[result.requestId].tasks
         t == result.taskId
     IN /\ T[t].status = "active" /\ T[t].parentId \in DOMAIN T
        /\ T[T[t].parentId].status = "split"
        /\ \E k \in DOMAIN T : T[k].status = "requires_clarification"

\* The order of C18 on a status and on a priority.
StatusRank(st) ==
  CASE st = "active" -> 1 [] st = "pending" -> 2 [] st = "requires_clarification" -> 3
    [] OTHER -> 4
PriorityRank(p) ==
  CASE p = "critical" -> 1 [] p = "high" -> 2 [] p = "medium" -> 3 [] p = "low" -> 4
    [] OTHER -> 5

\* Task a of T ranks strictly before task b of T.
RanksStrictlyBefore(T, a, b) ==
  \/ StatusRank(T[a].status) < StatusRank(T[b].status)
  \/ /\ StatusRank(T[a].status) = StatusRank(T[b].status)
     /\ \/ PriorityRank(T[a].priority) < PriorityRank(T[b].priority)
        \/ /\ PriorityRank(T[a].priority) = PriorityRank(T[b].priority)
           /\ a < b

\* C18: (file) the task getNextTask returns is a candidate, and no candidate
\* ranks strictly before it under the order: status active, pending,
\* requires clarification; then priority critical, high, medium, low; then
\* the smaller numeric id.
C18_NextTaskIsTheMinimumOfTheCandidates ==
  [][(result'.op = "getNextTask" /\ result'.status = "next_task")
       => LET T == requestsMap[result'.requestId].tasks
              t == result'.taskId
          IN /\ t \in actionableTasks(T)
             /\ \A c \in actionableTasks(T) : ~ RanksStrictlyBefore(T, c, t)]_vars

\* getNextTask has just returned a task although another candidate of the
\* same status has a smaller id and a lower priority, and a third candidate
\* has a higher priority and a later status.
C18_Witness ==
  /\ result.op = "getNextTask" /\ result.status = "next_task"
  /\ LET T == requestsMap[result.requestId].tasks
         t == result.taskId
     IN \E a, b \in actionableTasks(T) :
          /\ a < t /\ T[a].status = T[t].status
          /\ PriorityRank(T[t].priority) < PriorityRank(T[a].priority)
          /\ StatusRank(T[t].status) < StatusRank(T[b].status)
          /\ PriorityRank(T[b].priority) < PriorityRank(T[t].priority)

\* C19: (SQLite) when the tasks of a request are two pending tasks without
\* dependencies, one of priority high and one of priority low, getNextTask
\* returns the high one, in whichever order the two were created and on
\* every repeated call.
C19_NextTaskPrefersTheHighPriority ==
  [][\A r \in DOMAIN requests : \A h, l \in findTasksByRequestId(tasks, r) :
       (/\ findTasksByRequestId(tasks, r) = {h, l}
        /\ tasks[h].status = "pending" /\ tasks[h].dependsOn = {}
        /\ tasks[l].status = "pending" /\ tasks[l].dependsOn = {}
        /\ tasks[h].priority = "high" /\ tasks[l].priority = "low"
        /\ ~ requests[r].completed
        /\ result'.op = "sql_getNextTask" /\ result'.requestId = r)
       => result'.status = "next_task" /\ result'.taskId = h]_vars

\* C21: (file) addDependency(task, target) fails with InvalidOperation when
\* task equals target and when target.dependsOn already contains task, and
\* then every dependsOn is unchanged; when it succeeds it adds exactly the
\* edge from task to target and changes no other dependsOn; adding an edge
\* that already exists changes nothing.
C21_AddDependencyAddsOneEdgeOrNone ==
  [][\A r \in DOMAIN requestsMap : \A t, d \in DOMAIN requestsMap[r].tasks :
       LET T == requestsMap[r].tasks
           T2 == requestsMap'[r].tasks
       IN addDependency(r, t, d)
          => /\ (t = d \/ t \in T[d].dependsOn) => Refused("addDependency", r, t)
             /\ result'.status = "dependency_added"
                => /\ DOMAIN T2 = DOMAIN T
                   /\ d \notin T[t].dependsOn
                   /\ T2[t].dependsOn = T[t].dependsOn \cup {d}
                   /\ \A k \in DOMAIN T \ {t} : T2[k].dependsOn = T[k].dependsOn
             /\ result'.status \notin Errors => result'.status \in {"dependency_added", "no_change"}
             /\ d \in T[t].dependsOn => UNCHANGED <<fileVars, sqlVars>>]_vars

\* An addDependency has just been refused in a request where one task
\* depends on another and a third task depends on nothing.
C21_Witness ==
  /\ result.op = "addDependency" /\ result.status = "InvalidOperation"
  /\ LET T == requestsMap[result.requestId].tasks
     IN /\ \E t, d \in DOMAIN T : t # d /\ d \in T[t].dependsOn /\ t \notin T[d].dependsOn
        /\ \E k \in DOMAIN T : T[k].dependsOn = {}

\* C22: (SQLite) from a request planned without dependencies no sequence of
\* addDependency calls produces a task that depends on itself or two tasks
\* that depend directly on each other: a call that would do so fails and
\* leaves every dependsOn unchanged.
C22_NoSelfOrMutualDependency ==
  [][/\ \A t \in DOMAIN tasks' : t \notin tasks'[t].dependsOn
     /\ \A t, d \in DOMAIN tasks' :
          ~ (t \in tasks'[d].dependsOn /\ d \in tasks'[t].dependsOn)
     /\ \A r \in RequestIds, t, d \in DOMAIN tasks :
          (/\ Found(r, t) /\ Found(r, d)
           /\ (t = d \/ t \in tasks[d].dependsOn)
           /\ sql_addDependency(r, t, d))
          => /\ result'.status \in Errors
             /\ \A k \in DOMAIN tasks : tasks'[k].dependsOn = tasks[k].dependsOn]_vars

\* The task t of T and its transitive descendants along subtaskIds: the
\* least set of tasks of T that holds t and the subtasks of its members.
Descendants(T, t) ==
  LET Closed(S) == t \in S /\ \A x \in S : T[x].subtaskIds \cap DOMAIN T \subseteq S
  IN CHOOSE S \in SUBSET DOMAIN T :
       Closed(S) /\ \A S2 \in SUBSET DOMAIN T : Closed(S2) => S \subseteq S2

\* C23: (file) after a successful deleteTask(t), t and every transitive
\* descendant of t along subtaskIds are gone from the request; the former
\* parent of t no longer lists t; no surviving task's dependsOn holds a
\* removed id; every surviving task whose parentId named a removed task has
\* no parentId; and every task outside the removed set is still present and
\* otherwise unchanged.
C23_DeleteRemovesTheSubtreeAndItsReferences ==
  [][\A r \in DOMAIN requestsMap : \A t \in DOMAIN requestsMap[r].tasks :
       LET T == requestsMap[r].tasks
           T2 == requestsMap'[r].tasks
           removed == Descendants(T, t)
           p == T[t].parentId
       IN (deleteTask(r, t) /\ result'.status \notin Errors)
          => /\ DOMAIN T2 = DOMAIN T \ removed
             /\ p \in DOMAIN T2 => t \notin T2[p].subtaskIds
             /\ \A k \in DOMAIN T2 :
                  /\ T2[k].dependsOn = T[k].dependsOn \ removed
                  /\ T2[k].parentId = IF T[k].parentId \in removed THEN 0 ELSE T[k].parentId
                  /\ T2[k].subtaskIds = IF k = p THEN T[k].subtaskIds \ {t} ELSE T[k].subtaskIds
                  /\ T2[k].status = T[k].status
                  /\ T2[k].priority = T[k].priority
                  /\ T2[k].title = T[k].title
                  /\ T2[k].updatedAt = T[k].updatedAt]_vars

\* deleteTask has just removed a task with a descendant from under a parent
\* that survives without subtasks.
C23_Witness ==
  /\ result.op = "deleteTask" /\ result.status = "task_deleted"
  /\ LET T == requestsMap[result.requestId].tasks
     IN /\ taskCounter = Cardinality(DOMAIN T) + 2
        /\ result.taskId \notin DOMAIN T
        /\ \E k \in DOMAIN T : ~ T[k].hasSubtaskIds /\ T[k].subtaskIds = {}

\* C24: (file) validateDependencies returns validation_passed if and only if
\* no dependsOn of the request names a task that does not exist and the
\* dependency graph of the request has no cycle of any length, self-loops
\* included; it never throws for a dependency problem and never changes
\* state.
C24_ValidationPassesIffGraphIsSound ==
  [][\A r \in DOMAIN requestsMap :
       LET T == requestsMap[r].tasks IN
       validateDependencies(r)
       => /\ result'.status \in {"validation_passed", "validation_failed"}
          /\ result'.status = "validation_passed"
             <=> /\ \A t \in DOMAIN T : T[t].dependsOn \subseteq DOMAIN T
                 /\ Acyclic(T)
          /\ UNCHANGED <<fileVars, sqlVars>>]_vars

\* validateDependencies has just passed a request in which a task depends on
\* two tasks, one of which depends on the other.
C24_Witness ==
  /\ result.op = "validateDependencies" /\ result.status = "validation_passed"
  /\ LET T == requestsMap[result.requestId].tasks
     IN \E a, b, c \in DOMAIN T :
          /\ a # b /\ b # c /\ a # c
          /\ T[a].dependsOn = {b, c} /\ T[b].dependsOn = {c} /\ T[c].dependsOn = {}

\* Task a of T reaches task b along one or more dependsOn edges.
DependsOnPath(T, a, b) == b \in DependsOnReach(T, T[a].dependsOn, {})

\* C25: (file) validateDependencies returns the complete list of issues: one
\* issue for every dependsOn entry that names a task that does not exist,
\* and one issue for every cycle-closing edge of the dependency graph, so
\* that every cycle of the request has an issue that names one of its edges
\* and two disjoint cycles yield two cycle issues.
C25_ValidationListsEveryIssue ==
  [][\A r \in DOMAIN requestsMap :
       LET T == requestsMap[r].tasks
           listed == result'.issues
       IN validateDependencies(r)
          => /\ \A t \in DOMAIN T : \A d \in T[t].dependsOn \ DOMAIN T :
                  MissingIssue(t, d) \in listed
             /\ \A k \in DOMAIN T :
                  DependsOnPath(T, k, k)
                  => \E t, d \in DOMAIN T :
                       /\ CycleIssue(t, d) \in listed
                       /\ d \in T[t].dependsOn
                       /\ (t = k \/ (DependsOnPath(T, k, t) /\ DependsOnPath(T, t, k)))
                       /\ (d = k \/ (DependsOnPath(T, k, d) /\ DependsOnPath(T, d, k)))]_vars

\* What C26 says of a step of the file-based server.
FileArchiveRule ==
  \A r \in DOMAIN requestsMap : \A t \in DOMAIN requestsMap[r].tasks :
    LET T == requestsMap[r].tasks
        tree == Descendants(T, t)
        allDone == \A k \in tree : T[k].status = "done"
    IN archiveTaskTree(r, t)
       => IF allDone
          THEN result'.status = "task_tree_archived"
               => /\ DOMAIN requestsMap'[r].tasks = DOMAIN T \ tree
                  /\ Len(completedTasksData') = Len(completedTasksData) + 1
                  /\ SubSeq(completedTasksData', 1, Len(completedTasksData)) = completedTasksData
                  /\ LET bundle == completedTasksData'[Len(completedTasksData')]
                     IN /\ bundle.originalRequestId = r
                        /\ bundle.archivedRootTask = t
                        /\ bundle.archivedTasks = Filter(T, tree)
          ELSE Refused("archiveTaskTree", r, t)

\* What C26 says of a step of the SQLite-backed server.
SqlArchiveRule ==
  \A r \in DOMAIN requests : \A t \in findTasksByRequestId(tasks, r) :
    LET tree == Descendants(tasks, t)
        allDone == \A k \in tree : tasks[k].status = "done"
    IN sql_archiveTaskTree(r, t)
       => IF allDone
          THEN result'.status = "archived"
               => /\ DOMAIN tasks' = DOMAIN tasks \ tree
                  /\ DOMAIN archived_tasks' = DOMAIN archived_tasks \cup tree
                  /\ \A k \in DOMAIN archived_tasks : archived_tasks'[k] = archived_tasks[k]
                  /\ \A k \in tree :
                       /\ archived_tasks'[k].originalRequestId = r
                       /\ archived_tasks'[k].status = "done"
          ELSE Refused("sql_archiveTaskTree", r, t)

\* C26: in both servers archiveTaskTree(request, root) succeeds only if root
\* and every transitive descendant of root are done; otherwise it fails with
\* InvalidOperation and changes nothing.  On success exactly root and its
\* descendants leave the live tasks and are recorded in the archive under
\* the id of the request (the text of the request goes with the id).
C26_ArchiveTakesExactlyADoneTree ==
  [][FileArchiveRule /\ SqlArchiveRule]_vars

\* C27: (SQLite) after a task tree is archived no surviving live task's
\* dependsOn names an archived task, so a pending task whose dependencies
\* were all done before the archival can still be returned by getNextTask:
\* none of its dependencies is missing or not done afterwards.
C27_ArchivedTasksLeaveNoDependents ==
  [][LET archived == DOMAIN archived_tasks' \ DOMAIN archived_tasks
     IN archived # {}
        => /\ \A k \in DOMAIN tasks' : tasks'[k].dependsOn \cap archived = {}
           /\ \A k \in DOMAIN tasks' :
                (/\ tasks[k].status = "pending"
                 /\ ~ hasUnmetDependencies(tasks, rowToTask(tasks, k)))
                => \A depId \in tasks'[k].dependsOn :
                     depId \in DOMAIN tasks' /\ tasks'[depId].status = "done"]_vars

\* The ids of the tasks in the bundles of an archive.
ArchivedIds(bundles) == UNION {DOMAIN bundles[i].archivedTasks : i \in DOMAIN bundles}

\* C28: (file) in every reachable state no task id is both among the live
\* tasks of a request and in the archive, and an archive entry, once
\* written, is never modified or removed by a later operation.
C28_ArchiveIsDisjointAndAppendOnly ==
  [][/\ \A r \in DOMAIN requestsMap' :
          DOMAIN requestsMap'[r].tasks \cap ArchivedIds(completedTasksData') = {}
     /\ Len(completedTasksData') >= Len(completedTasksData)
     /\ SubSeq(completedTasksData', 1, Len(completedTasksData)) = completedTasksData]_vars

\* A tree of two tasks is in the archive and a later operation has just
\* changed the live tasks that remain.
C28_Witness ==
  /\ \E i \in DOMAIN completedTasksData :
        Cardinality(DOMAIN completedTasksData[i].archivedTasks) = 2
  /\ result.op \in {"markTaskDone", "addSubtask", "splitTask", "deleteTask"}
  /\ result.status \notin Errors
  /\ requestsMap[result.requestId].tasks # << >>

\* The root above row k of the table tk: the end of the parentId chain.
RECURSIVE RootOf(_, _, _)
RootOf(tk, k, seen) ==
  IF tk[k].parentId = 0 \/ tk[k].parentId \notin DOMAIN tk \/ tk[k].parentId \in seen
  THEN k
  ELSE RootOf(tk, tk[k].parentId, seen \cup {k})

\* C29: (SQLite) every task placed in the archive, by auto-archive or by
\* archiveTaskTree, is done when it is archived, and no task is archived
\* unless its root and all descendants of that root are archived in the
\* same step.
C29_OnlyWholeDoneTreesAreArchived ==
  [][LET archived == DOMAIN archived_tasks' \ DOMAIN archived_tasks
     IN \A k \in archived :
          /\ archived_tasks'[k].status = "done"
          /\ k \in DOMAIN tasks
             => Descendants(tasks, RootOf(tasks, k, {})) \subseteq archived]_vars

\* C30: (file) after every successful splitTask and every successful
\* mergeTasks on a request the completed flag of that request is false.
C30_SplitAndMergeReopenTheRequest ==
  [][(result'.op \in {"splitTask", "mergeTasks"} /\ result'.status \notin Errors)
       => ~ requestsMap'[result'.requestId].completed]_vars

\* C31: (SQLite) after a successful mergeTasks(primary, ids) the task
\* primary still exists, the subtasks that primary and the merged tasks had
\* are live subtasks of primary, and every other task whose dependsOn named
\* a merged-away id depends on primary instead.
C31_SqlMergeKeepsPrimaryAndItsReferences ==
  [][\A r \in RequestIds, p \in TaskIds, ids \in MergeLists :
       (sql_mergeTasks(r, p, ids) /\ result'.status = "tasks_merged") =>
         LET away == Range(ids) \ {p}
             subs == UNION {tasks[k].subtaskIds : k \in {p} \cup away} \ ({p} \cup away)
         IN /\ p \in DOMAIN tasks'
            /\ \A c \in subs : /\ c \in DOMAIN tasks'
                                /\ tasks'[c].parentId = p
                                /\ c \in tasks'[p].subtaskIds
            /\ \A k \in DOMAIN tasks \ ({p} \cup away) :
                  tasks[k].dependsOn \cap away # {} =>
                    /\ k \in DOMAIN tasks'
                    /\ tasks'[k].dependsOn \cap away = {}
                    /\ p \in tasks'[k].dependsOn]_vars

\* The ids of the live tasks of the file-based server, and of its archive.
FileLiveIds(rm) == UNION {DOMAIN rm[r].tasks : r \in DOMAIN rm}

\* C32: (both) task ids are unique across all requests and never reused:
\* no id is live in two requests, the id counter never decreases, and every
\* task a step creates has an id above the counter the step started with,
\* hence above every id handed out before, whether its task is still live,
\* was deleted, merged away or archived.
C32_TaskIdsAreUniqueAndNeverReused ==
  /\ [](\A r1, r2 \in DOMAIN requestsMap :
          r1 # r2 => DOMAIN requestsMap[r1].tasks \cap DOMAIN requestsMap[r2].tasks = {})
  /\ [](FileLiveIds(requestsMap) \cup ArchivedIds(completedTasksData) \subseteq 1..taskCounter)
  /\ [](DOMAIN tasks \cup DOMAIN archived_tasks \subseteq 1..metadata.lastTaskId)
  /\ [](DOMAIN tasks \cap DOMAIN archived_tasks = {})
  /\ [][/\ taskCounter' >= taskCounter
        /\ metadata'.lastTaskId >= metadata.lastTaskId
        /\ FileLiveIds(requestsMap') \ FileLiveIds(requestsMap)
              \subseteq (taskCounter + 1)..taskCounter'
        /\ DOMAIN tasks' \ DOMAIN tasks
              \subseteq (metadata.lastTaskId + 1)..metadata'.lastTaskId]_vars

\* A task was created in the second request after a task with a smaller id
\* had been deleted or merged away.
C32_Witness ==
  /\ result.op \in {"addTasksToRequest", "addSubtask", "splitTask"}
  /\ result.status \notin Errors
  /\ result.requestId = 2
  /\ taskCounter \in FileLiveIds(requestsMap)
  /\ \E gone \in 1..taskCounter : gone \notin FileLiveIds(requestsMap)

\* C33: (SQLite) two writers that share the metadata counter never obtain
\* the same id from getNextTaskId or getNextRequestId, however their reads
\* and writes interleave.
C33_WritersNeverObtainTheSameId ==
  \A w1, w2 \in Writers : w1 # w2 => writers[w1].ids \cap writers[w2].ids = {}

\* C34: (SQLite) the writes of one markTaskDone call are all-or-nothing:
\* when a persistence step of the call fails, the tables are as they were
\* before the call.
C34_MarkTaskDoneIsAllOrNothing ==
  [][(result'.op = "sql_markTaskDone" /\ result'.status \in Errors)
       => UNCHANGED <<requests, tasks, archived_tasks>>]_vars

\* Whether following parentId from task k, for up to n steps, arrives at target.
RECURSIVE ParentIdLeadsTo(_, _, _, _)
ParentIdLeadsTo(T, k, target, n) ==
  /\ n > 0
  /\ k \in DOMAIN T
  /\ T[k].parentId # 0
  /\ \/ T[k].parentId = target
     \/ ParentIdLeadsTo(T, T[k].parentId, target, n - 1)

\* C35: (file) the parent relation of a request is a forest: no task is its
\* own parent or its own ancestor via parentId, and no task lists itself in
\* its subtaskIds.
C35_ParentRelationIsAForest ==
  \A r \in DOMAIN requestsMap :
    \A t \in DOMAIN requestsMap[r].tasks :
      /\ ~ ParentIdLeadsTo(requestsMap[r].tasks, t, t, MaxTaskId)
      /\ t \notin requestsMap[r].tasks[t].subtaskIds

\* A dependency graph without a cycle and without a reference to a task
\* the request does not hold.
SoundDependencies(T) ==
  Acyclic(T) /\ \A k \in DOMAIN T : T[k].dependsOn \subseteq DOMAIN T

\* C36: (file) on a request whose dependency graph is acyclic and has no
\* dangling reference, the agent that calls getNextTask and marks the
\* returned task done reaches a state where the request is completed, and
\* getNextTask never answers no_actionable_task while a task is pending.
C36_AgentCompletesASoundRequest ==
  /\ \A r \in RequestIds :
        (r \in DOMAIN requestsMap)
          ~> (/\ r \in DOMAIN requestsMap
              /\ \/ ~ SoundDependencies(requestsMap[r].tasks)
                 \/ requestsMap[r].completed)
  /\ [][(result'.op = "getNextTask" /\ result'.status = "no_actionable_task"
           /\ SoundDependencies(requestsMap'[result'.requestId].tasks))
          => \A k \in DOMAIN requestsMap'[result'.requestId].tasks :
               requestsMap'[result'.requestId].tasks[k].status # "pending"]_vars

\* C37: (file) a task with status done has no transitive descendant whose
\* status is pending, active or requires_clarification.
C37_DoneTasksHaveNoOpenDescendant ==
  \A r \in DOMAIN requestsMap :
    LET T == requestsMap[r].tasks IN
    \A t \in DOMAIN T :
      T[t].status = "done" =>
        \A d \in Descendants(T, t) \ {t} :
          T[d].status \notin {"pending", "active", "requires_clarification"}

C39_CompletedRequestsHoldNoOpenTask ==
  /\ [](\A r \in DOMAIN requests :
          requests[r].completed =>
            \A k \in findTasksByRequestId(tasks, r) : IsTerminal(tasks[k].status))
  /\ [][\A r \in DOMAIN requests :
          (/\ sql_getNextTask(r)
           /\ \E k \in findTasksByRequestId(tasks, r) :
                 /\ tasks[k].status = "pending"
                 /\ ~ hasUnmetDependencies(tasks, rowToTask(tasks, k)))
          => result'.status = "next_task"]_vars

\* The rows of request r.
RowsOf(tk, r) == [k \in findTasksByRequestId(tk, r) |-> tk[k]]

\* C40: (SQLite) requests are isolated: what getNextTask(X) answers is the
\* same in two states that agree on request X and on the tasks of X (here:
\* the states before and after a step that leaves them alone), and a call
\* with request id X changes no task and no completed flag of another
\* request.
C40_RequestsAreIsolated ==
  [][\A X \in DOMAIN requests :
       /\ (requests'[X] = requests[X] /\ RowsOf(tasks', X) = RowsOf(tasks, X))
            => getNextTaskAnswers(requests', tasks', X) = getNextTaskAnswers(requests, tasks, X)
       /\ X # result'.requestId
            => requests'[X] = requests[X] /\ RowsOf(tasks', X) = RowsOf(tasks, X)]_vars
====
